---- MODULE Spec2Model ----
(***************************************************************************)
(* State-machine model of odsgenerator (src/odsgenerator/odsgenerator.py): *)
(* the recursive descent ODSGenerator.parse -> parse_table -> parse_row -> *)
(* parse_cell over a description of tabs, rows and cells, the style        *)
(* catalog (parse_styles, insert_style, guess_style), the span accumulator *)
(* (store_spanned_cell, parse_spanned) and the width step (parse_width).   *)
(* The odfdo document writer is represented by the calls made on it.       *)
(***************************************************************************)
EXTENDS Integers, Sequences, FiniteSets, TLC

(***************************************************************************)
(* Bounds of the model.                                                    *)
(***************************************************************************)
\* Number of description nodes (documents, tabs, rows and cells) handed to
\* the process over all its parses.
MaxSize == 5

(***************************************************************************)
(* Python values.  Every value is a record of the same shape so that any   *)
(* two of them can be compared.                                            *)
(***************************************************************************)
\* Python's None where a style name is expected, and the "key absent" mark
\* of the defaults option.
None == "<None>"
Absent == "<absent>"

PyNone == [t |-> "none", s |-> "", n |-> 0, items |-> <<>>]
PyStr(s) == [t |-> "str", s |-> s, n |-> 0, items |-> <<>>]
PyInt(n) == [t |-> "int", s |-> "", n |-> n, items |-> <<>>]
\* a float, n counting tenths: PyFloat(15) is 1.5
PyFloat(n) == [t |-> "float", s |-> "", n |-> n, items |-> <<>>]
PyBool(b) == [t |-> "bool", s |-> "", n |-> IF b THEN 1 ELSE 0, items |-> <<>>]
PyList(xs) == [t |-> "list", s |-> "", n |-> 0, items |-> xs]

\* bool(v)
Truthy(v) ==
    CASE v.t = "none" -> FALSE
      [] v.t = "str" -> v.s # ""
      [] v.t = "list" -> v.items # <<>>
      [] OTHER -> v.n # 0

\* bool(name) for a style name: None and "" are false
TruthyName(name) == name # None /\ name # ""

\* str(n) for a natural number
Digit(d) ==
    CASE d = 0 -> "0" [] d = 1 -> "1" [] d = 2 -> "2" [] d = 3 -> "3"
      [] d = 4 -> "4" [] d = 5 -> "5" [] d = 6 -> "6" [] d = 7 -> "7"
      [] d = 8 -> "8" [] d = 9 -> "9"

RECURSIVE ToStr(_)
ToStr(n) == IF n < 10 THEN Digit(n) ELSE ToStr(n \div 10) \o Digit(n % 10)

(***************************************************************************)
(* Style definitions.  A markup is what Element.from_tag yields: the       *)
(* style:name attribute of the markup (None when it has none), the family, *)
(* the values of the root attributes whose key ends in "style-name", in    *)
(* attribute order, and a tag telling definitions apart.                   *)
(***************************************************************************)
Markup(name, family, deps, id) ==
    [name |-> name, family |-> family, deps |-> deps, id |-> id]

\* one entry of a list of style definitions: {"name": ..., "definition": ...}
StyleItem(name, markup) == [name |-> name, definition |-> markup]

\* a definition that is not well-formed markup: Element.from_tag raises
Malformed == Markup(None, "<malformed>", <<>>, "<style:style")

DEFAULT_TAB_PREFIX == "Tab"

DEFAULT_STYLES == <<
    StyleItem("default_table_row", Markup(None, "table-row", <<>>, "builtin")),
    StyleItem("table_row_1cm", Markup(None, "table-row", <<>>, "builtin")),
    StyleItem("bold", Markup(None, "table-cell", <<"Default">>, "builtin")),
    StyleItem("bold_center", Markup(None, "table-cell", <<"Default">>, "builtin")),
    StyleItem("left", Markup(None, "table-cell", <<"Default">>, "builtin")),
    StyleItem("right", Markup(None, "table-cell", <<"Default">>, "builtin")),
    StyleItem("center", Markup(None, "table-cell", <<"Default">>, "builtin")),
    StyleItem("decimal1", Markup(None, "number", <<>>, "builtin")),
    StyleItem("cell_decimal1", Markup(None, "table-cell", <<"Default", "decimal1">>, "builtin")),
    StyleItem("decimal2", Markup(None, "number", <<>>, "builtin")),
    StyleItem("cell_decimal2", Markup(None, "table-cell", <<"Default", "decimal2">>, "builtin")),
    StyleItem("decimal3", Markup(None, "number", <<>>, "builtin")),
    StyleItem("cell_decimal3", Markup(None, "table-cell", <<"Default", "decimal3">>, "builtin")),
    StyleItem("decimal4", Markup(None, "number", <<>>, "builtin")),
    StyleItem("cell_decimal4", Markup(None, "table-cell", <<"Default", "decimal4">>, "builtin")),
    StyleItem("decimal6", Markup(None, "number", <<>>, "builtin")),
    StyleItem("cell_decimal6", Markup(None, "table-cell", <<"Default", "decimal6">>, "builtin")),
    StyleItem("integer", Markup(None, "number", <<>>, "builtin")),
    StyleItem("integer_no_zero", Markup(None, "number", <<>>, "builtin")),
    StyleItem("grid_06pt", Markup(None, "table-cell", <<"Default">>, "builtin")),
    StyleItem("bold_left_bg_gray_grid_06pt", Markup(None, "table-cell", <<"Default">>, "builtin")),
    StyleItem("bold_right_bg_gray_grid_06pt", Markup(None, "table-cell", <<"Default">>, "builtin")),
    StyleItem("bold_center_bg_gray_grid_06pt", Markup(None, "table-cell", <<"Default">>, "builtin")),
    StyleItem("bold_left_grid_06pt", Markup(None, "table-cell", <<"Default">>, "builtin")),
    StyleItem("bold_right_grid_06pt", Markup(None, "table-cell", <<"Default">>, "builtin")),
    StyleItem("bold_center_grid_06pt", Markup(None, "table-cell", <<"Default">>, "builtin")),
    StyleItem("left_grid_06pt", Markup(None, "table-cell", <<"Default">>, "builtin")),
    StyleItem("right_grid_06pt", Markup(None, "table-cell", <<"Default">>, "builtin")),
    StyleItem("center_grid_06pt", Markup(None, "table-cell", <<"Default">>, "builtin")),
    StyleItem("integer_grid_06pt", Markup(None, "table-cell", <<"Default", "integer">>, "builtin")),
    StyleItem("integer_no_zero_grid_06pt", Markup(None, "table-cell", <<"Default", "integer_no_zero">>, "builtin")),
    StyleItem("center_integer_no_zero_grid_06pt", Markup(None, "table-cell", <<"Default", "integer_no_zero">>, "builtin")),
    StyleItem("decimal1_grid_06pt", Markup(None, "table-cell", <<"Default", "decimal1">>, "builtin")),
    StyleItem("decimal2_grid_06pt", Markup(None, "table-cell", <<"Default", "decimal2">>, "builtin")),
    StyleItem("decimal3_grid_06pt", Markup(None, "table-cell", <<"Default", "decimal3">>, "builtin")),
    StyleItem("decimal4_grid_06pt", Markup(None, "table-cell", <<"Default", "decimal4">>, "builtin")),
    StyleItem("decimal6_grid_06pt", Markup(None, "table-cell", <<"Default", "decimal6">>, "builtin"))
>>

DefaultKeys ==
    {"style_table_row", "style_table_cell", "style_str", "style_int",
     "style_float", "style_other"}

DEFAULTS_DICT ==
    [k \in DefaultKeys |->
        CASE k = "style_table_row" -> "default_table_row"
          [] k = "style_table_cell" -> ""
          [] k = "style_str" -> "left"
          [] k = "style_int" -> "right"
          [] k = "style_float" -> "right"
          [] k = "style_other" -> "left"]

(***************************************************************************)
(* The style catalog.  A generator's style state is the record             *)
(*   [styles_elements, used_styles, inserted]                              *)
(* where inserted is the list of doc.insert_style calls made on the writer.*)
(***************************************************************************)
\* the catalog entry made from a style item: style.name = name when a name
\* is given, else the name is the one of the markup
StyleName(item) ==
    IF TruthyName(item.name) THEN item.name ELSE item.definition.name

StyleElement(item) ==
    [name |-> StyleName(item), family |-> item.definition.family,
     deps |-> item.definition.deps, id |-> item.definition.id]

\* self.doc.insert_style(style, automatic=...) as seen by the writer
InsertCall(style, automatic) ==
    [name |-> style.name, family |-> style.family, id |-> style.id,
     automatic |-> automatic]

RECURSIVE insert_style(_, _)
RECURSIVE insert_dependencies(_, _, _)

\* insert_style without its test of the used set
insert_style_again(g, name) ==
    IF /\ TruthyName(name)
       /\ name \in DOMAIN g.styles_elements
    THEN LET style == g.styles_elements[name]
             g1 == [g EXCEPT !.inserted = Append(@, InsertCall(style, TRUE)),
                             !.used_styles = @ \cup {name}]
         IN  insert_dependencies(g1, style.deps, 1)
    ELSE g

\* insert_style doing nothing
insert_style_skipped(g, name) == g

\* insert_style without its loop over the attributes
insert_style_alone(g, name) ==
    IF /\ TruthyName(name)
       /\ name \notin g.used_styles
       /\ name \in DOMAIN g.styles_elements
    THEN LET style == g.styles_elements[name]
         IN  [g EXCEPT !.inserted = Append(@, InsertCall(style, TRUE)),
                       !.used_styles = @ \cup {name}]
    ELSE g

\* ODSGenerator.insert_style(name)
insert_style(g, name) ==
    IF /\ TruthyName(name)
       /\ name \notin g.used_styles
       /\ name \in DOMAIN g.styles_elements
    THEN LET style == g.styles_elements[name]
             g1 == [g EXCEPT !.inserted = Append(@, InsertCall(style, TRUE)),
                             !.used_styles = @ \cup {name}]
         IN  insert_dependencies(g1, style.deps, 1)
    ELSE g

\* the loop over the attributes never entered
insert_dependencies_none(g, deps, i) == g

\* the loop over style.attributes.items() of insert_style
insert_dependencies(g, deps, i) ==
    IF i > Len(deps) THEN g
    ELSE insert_dependencies(insert_style(g, deps[i]), deps, i + 1)

\* the items parse_styles handles before Element.from_tag raises: all of
\* them when every definition is well-formed
UntilMalformed(styles) ==
    LET bad == {i \in DOMAIN styles : styles[i].definition = Malformed}
    IN  IF bad = {} THEN styles
        ELSE SubSeq(styles, 1, (CHOOSE i \in bad : \A j \in bad : i <= j) - 1)

RECURSIVE parse_styles(_, _, _, _)
\* ODSGenerator.parse_styles(styles, insert), from the i-th item on
parse_styles(g, styles, insert, i) ==
    IF i > Len(styles) THEN g
    ELSE LET style == StyleElement(styles[i])
             g1 == [g EXCEPT !.styles_elements = (style.name :> style) @@ @]
             g2 == IF insert THEN insert_style(g1, style.name) ELSE g1
         IN  parse_styles(g2, styles, insert, i + 1)

(***************************************************************************)
(* Options.  A mapping node is a record holding every key it may carry,    *)
(* with the set "has" of the keys that are present.                        *)
(***************************************************************************)
\* the "style" option: a single name or a list of names
NoStyle == [isList |-> FALSE, names |-> <<>>]
One(name) == [isList |-> FALSE, names |-> <<name>>]
Many(names) == [isList |-> TRUE, names |-> names]

\* opt.get(STYLE, []) turned into a list
StyleList(opt) ==
    IF "style" \in opt.has THEN opt.style.names ELSE <<>>

\* the test of the family left out
HasFamilyUntested(catalog, name, family) ==
    name \in DOMAIN catalog

\* style and style.family == family, for self.styles_elements.get(name)
HasFamily(catalog, name, family) ==
    name \in DOMAIN catalog /\ catalog[name].family = family

RECURSIVE FirstMatch(_, _, _, _)
\* the for loop of guess_style, from the i-th name on
FirstMatch(catalog, names, family, i) ==
    IF i > Len(names) THEN None
    ELSE IF TruthyName(names[i]) /\ HasFamily(catalog, names[i], family)
         THEN names[i]
         ELSE FirstMatch(catalog, names, family, i + 1)

\* guess_style returning its default without the family test
guess_style_any_default(catalog, opt, family, default) ==
    LET found == FirstMatch(catalog, StyleList(opt), family, 1)
    IN  IF found # None THEN found
        ELSE IF TruthyName(default) /\ default \in DOMAIN catalog
             THEN default
             ELSE None

\* guess_style taking the first known name whatever its family
guess_style_any_family(catalog, opt, family, default) ==
    LET style_list == StyleList(opt)
        known == {j \in DOMAIN style_list : style_list[j] \in DOMAIN catalog}
    IN  IF known # {}
        THEN style_list[CHOOSE j \in known : \A k \in known : j <= k]
        ELSE IF TruthyName(default) /\ HasFamily(catalog, default, family) THEN default
        ELSE None

\* guess_style giving up when the style option names no style of the family
guess_style_none_on_miss(catalog, opt, family, default) ==
    LET style_list == StyleList(opt)
        found == FirstMatch(catalog, style_list, family, 1)
    IN  IF found # None THEN found
        ELSE IF style_list # <<>> THEN None
        ELSE IF TruthyName(default) /\ HasFamily(catalog, default, family) THEN default
        ELSE None

\* ODSGenerator.guess_style(opt, family, default)
guess_style(catalog, opt, family, default) ==
    LET found == FirstMatch(catalog, StyleList(opt), family, 1)
    IN  IF found # None THEN found
        ELSE IF TruthyName(default) /\ HasFamily(catalog, default, family)
             THEN default
             ELSE None

\* split leaving the key in the mapping
split_keeping(item, key) ==
    IF item.kind = "dict" THEN item ELSE [item EXCEPT !.has = {}]

\* ODSGenerator.split(item, key): the extracted content is the node's
\* children (revealed one by one), the remaining dict is the node without
\* the key
split(item, key) ==
    IF item.kind = "dict" THEN [item EXCEPT !.has = @ \ {key}] ELSE [item EXCEPT !.has = {}]

\* whether split(item, key) yields content: a dict without the key yields []
HasInner(item, key) == item.kind # "dict" \/ key \in item.has

\* iter(s) of a string: its characters (the strings that stand at a
\* sequence position here are "ab" and strings of one character)
Characters(s) ==
    CASE s = "" -> <<>>
      [] s = "ab" -> <<"a", "b">>
      [] OTHER -> <<s>>

\* whether a for loop can iterate what split yields for the node: a list or
\* a mapping's entry can, a string can, a number or None raises TypeError
Iterable(node) == node.kind # "scalar" \/ node.value.t = "str"

\* whether child can be the n+1-th item the loop yields: the items of a
\* string are its characters, those of a list are revealed as they come
MayHold(node, n, child) ==
    node.kind = "scalar" =>
        /\ n < Len(Characters(node.value.s))
        /\ child.kind = "scalar"
        /\ child.value = [t |-> "str", s |-> Characters(node.value.s)[n + 1],
                          n |-> 0, items |-> <<>>]

\* whether the loop can be over after n items
Exhausted(node, n) ==
    node.kind = "scalar" => n = Len(Characters(node.value.s))

(***************************************************************************)
(* Description nodes.                                                      *)
(***************************************************************************)
NoWidth == [isList |-> FALSE, items |-> <<>>]
NoDefaults == [k \in DefaultKeys |-> Absent]
Override(key, name) == [k \in DefaultKeys |-> IF k = key THEN name ELSE Absent]

DocNode(kind, has, defaults, styles) ==
    [kind |-> kind, has |-> has, defaults |-> defaults, styles |-> styles]

TabNode(kind, has, name, style, width, span) ==
    [kind |-> kind, has |-> has, name |-> name, style |-> style,
     width |-> width, span |-> span]

RowNode(kind, has, style) == [kind |-> kind, has |-> has, style |-> style]

CellNode(kind, has, value, style, text, formula, colspanned, rowspanned, attr) ==
    [kind |-> kind, has |-> has, value |-> value, style |-> style,
     text |-> text, formula |-> formula, colspanned |-> colspanned,
     rowspanned |-> rowspanned, attr |-> attr]

\* a bare scalar at cell position
Scalar(v) == CellNode("scalar", {}, v, NoStyle, None, None, 1, 1, <<>>)

\* a cell mapping carrying the span counts named in ks
SpanCell(ks, c, r) ==
    CellNode("dict", {"value"} \cup ks, PyStr("s"), NoStyle, None, None,
             IF "colspanned" \in ks THEN c ELSE 1,
             IF "rowspanned" \in ks THEN r ELSE 1, <<>>)

\* the families of descriptions explored: each behaviour draws its nodes
\* from the bare forms and from the mappings of one family of options
Profiles ==
    {"shape", "defaults", "cascade", "styles", "span", "width", "cell", "scalars",
     "slots", "shared", "cycle"}

StyleOpts ==
    {One("bold"), One("table_row_1cm"),
     Many(<<"nosuch", "table_row_1cm", "center", "bold">>)}

\* one option for two slots, the cell-family name first
SlotOpts ==
    {Many(<<"bold", "table_row_1cm">>), Many(<<"center", "table_row_1cm">>),
     One("center")}

DefaultsOpts ==
    {Override("style_int", "center"),
     Override("style_int", "table_row_1cm"),
     Override("style_table_row", "table_row_1cm"),
     [k \in DefaultKeys |->
        CASE k = "style_str" -> "bold"
          [] k = "style_float" -> "nosuch"
          [] k = "style_other" -> "center"
          [] OTHER -> Absent]}

SeedDefaultsOpts ==
    {Override("style_table_cell", "bold"),
     Override("style_table_cell", "default_table_row")}

\* user styles: a cell style depending on the built-in number style
\* "decimal2", a row style named by its markup only, a redefinition of the
\* built-in "bold" and a second definition of "mycell"
UserCell == StyleItem("mycell", Markup(None, "table-cell", <<"Default", "decimal2">>, "user1"))
UserRow == StyleItem(None, Markup("myrow", "table-row", <<>>, "user2"))
UserBold == StyleItem("bold", Markup("other", "table-cell", <<"Default">>, "user3"))
UserCell2 == StyleItem("mycell", Markup(None, "table-cell", <<"Default">>, "user4"))

UserBroken == StyleItem("broken", Malformed)

\* a third definition of "mycell", now depending on "decimal1"; a cell style
\* whose parent is "mycell"; a cell style whose parent is the built-in
\* "cell_decimal3", itself depending on the number style "decimal3"
UserCell3 == StyleItem("mycell", Markup(None, "table-cell", <<"Default", "decimal1">>, "user5"))
UserOuter == StyleItem("outer", Markup(None, "table-cell", <<"mycell">>, "user6"))
UserDeep == StyleItem("deep", Markup(None, "table-cell", <<"cell_decimal3">>, "user7"))

\* two user styles whose parents are each other, and one that is its own
\* parent
UserPing == StyleItem("ping", Markup(None, "table-cell", <<"pong">>, "user8"))
UserPong == StyleItem("pong", Markup(None, "table-cell", <<"ping">>, "user9"))
UserSelf == StyleItem("self", Markup(None, "table-cell", <<"self">>, "user10"))
CyclicStyles == <<UserPing, UserPong, UserSelf>>

StylesOpts ==
    {<<UserCell>>, <<UserCell, UserRow>>, <<UserCell, UserCell2>>, <<UserBold>>,
     <<UserCell, UserBroken, UserRow>>, <<UserCell, UserCell3, UserOuter>>,
     <<UserDeep>>}

UserStyleOpts == {One("mycell"), Many(<<"myrow", "mycell">>), One("bold")}

\* "A1:B2", a rectangle [x0, y0, x1, y1], or a list of these
Rect(x0, y0, x1, y1) == PyList(<<PyInt(x0), PyInt(y0), PyInt(x1), PyInt(y1)>>)

\* a list object that several tabs of one description may hold under "span"
\* (one Python list, or a YAML anchor and its aliases): s names the object,
\* items is what it holds in the description as given
SharedSpan == [t |-> "list", s |-> "&span", n |-> 0, items |-> <<PyStr("A1:B1")>>]

SpanOpts ==
    {PyStr("A1:B2"), Rect(0, 0, 1, 1), PyList(<<Rect(0, 0, 1, 1)>>),
     PyList(<<PyStr("A1:B1"), Rect(0, 1, 1, 1)>>), PyList(<<>>), PyStr("")}

\* cells carrying span counts: a count of 2 or 3, a count of 1 and a count
\* below 1, alone and together
SpanCells ==
    {SpanCell({"colspanned"}, 0, 1), SpanCell({"colspanned"}, 2, 1),
     SpanCell({"rowspanned"}, 1, 3), SpanCell({"colspanned", "rowspanned"}, 2, 3),
     SpanCell({"colspanned", "rowspanned"}, 0, 3),
     SpanCell({"colspanned", "rowspanned"}, 1, 1)}

WidthOpts ==
    {[isList |-> FALSE, items |-> <<"2cm">>],
     [isList |-> TRUE, items |-> <<"2cm", "", "3cm">>],
     [isList |-> TRUE, items |-> <<"2cm", "2cm">>],
     [isList |-> TRUE, items |-> <<>>],
     [isList |-> FALSE, items |-> <<"">>]}

BareDoc == DocNode("list", {}, NoDefaults, <<>>)
BareTab == TabNode("list", {}, None, NoStyle, NoWidth, PyNone)
BareRow == RowNode("list", {}, NoStyle)
DictCell(has, value, style) == CellNode("dict", has, value, style, None, None, 1, 1, <<>>)

DocNodes(p) ==
    {BareDoc}
    \cup (IF p = "shape"
          THEN {DocNode("dict", {"body"}, NoDefaults, <<>>),
                DocNode("dict", {}, NoDefaults, <<>>)}
          ELSE {})
    \cup (IF p = "defaults"
          THEN {DocNode("dict", {"body", "defaults"}, d, <<>>) : d \in DefaultsOpts}
          ELSE {})
    \cup (IF p = "cascade"
          THEN {DocNode("dict", {"body", "defaults"}, d, <<>>) : d \in SeedDefaultsOpts}
          ELSE {})
    \cup (IF p = "styles"
          THEN {DocNode("dict", {"body", "styles"}, NoDefaults, s) : s \in StylesOpts}
          ELSE {})
    \cup (IF p = "cycle"
          THEN {DocNode("dict", {"body", "styles"}, NoDefaults, CyclicStyles)}
          ELSE {})
    \cup (IF p = "scalars"
          THEN {Scalar(PyStr("a")), Scalar(PyInt(5)), Scalar(PyNone)}
          ELSE {})

TabNodes(p) ==
    {BareTab}
    \cup (IF p = "shape"
          THEN {TabNode("dict", {"table", "name"}, "first tab", NoStyle, NoWidth, PyNone),
                TabNode("dict", {"table"}, None, NoStyle, NoWidth, PyNone),
                TabNode("dict", {"name"}, "empty tab", NoStyle, NoWidth, PyNone)}
          ELSE {})
    \cup (IF p = "cascade"
          THEN {TabNode("dict", {"table", "style"}, None, s, NoWidth, PyNone) :
                    s \in StyleOpts \ {One("table_row_1cm")}}
          ELSE {})
    \cup (IF p = "slots"
          THEN {TabNode("dict", {"table", "style"}, None,
                        Many(<<"bold", "table_row_1cm">>), NoWidth, PyNone)}
          ELSE {})
    \cup (IF p = "span"
          THEN {TabNode("dict", {"table", "span"}, None, NoStyle, NoWidth, s) : s \in SpanOpts}
          ELSE {})
    \cup (IF p = "shared"
          THEN {TabNode("dict", {"table", "span"}, None, NoStyle, NoWidth, SharedSpan)}
          ELSE {})
    \cup (IF p = "width"
          THEN {TabNode("dict", {"table", "width"}, None, NoStyle, w, PyNone) : w \in WidthOpts}
          ELSE {})
    \cup (IF p = "cell"
          THEN {TabNode("dict", {"table", "width", "span"}, None, NoStyle,
                        [isList |-> FALSE, items |-> <<"2cm">>], PyStr("A1:B1"))}
          ELSE {})
    \cup (IF p = "scalars"
          THEN {Scalar(PyStr("a")), Scalar(PyInt(5)), Scalar(PyNone)}
          ELSE {})

RowNodes(p) ==
    {BareRow}
    \cup (IF p = "shape"
          THEN {RowNode("dict", {"row"}, NoStyle), RowNode("dict", {}, NoStyle)}
          ELSE {})
    \cup (IF p = "defaults"
          THEN {RowNode("dict", {"row", "style"}, One("bold")),
                RowNode("dict", {"row", "style"}, One("nosuch"))}
          ELSE {})
    \cup (IF p = "cascade"
          THEN {RowNode("dict", {"row", "style"}, s) : s \in StyleOpts}
          ELSE {})
    \cup (IF p = "styles"
          THEN {RowNode("dict", {"row", "style"}, s) : s \in UserStyleOpts}
          ELSE {})
    \cup (IF p = "slots"
          THEN {RowNode("dict", {"row", "style"}, s) :
                    s \in SlotOpts \ {Many(<<"bold", "table_row_1cm">>)}}
          ELSE {})
    \cup (IF p = "scalars"
          THEN {Scalar(PyStr("ab")), Scalar(PyStr("a")), Scalar(PyInt(5)), Scalar(PyNone)}
          ELSE {})

CellNodes(p) ==
    {Scalar(PyStr("a")), Scalar(PyInt(10))}
    \cup (IF p = "shape"
          THEN {DictCell({"value"}, PyInt(10), NoStyle), DictCell({}, PyNone, NoStyle)}
          ELSE {})
    \cup (IF p = "defaults"
          THEN {Scalar(PyFloat(15)), Scalar(PyNone), Scalar(PyBool(TRUE)),
                DictCell({"value"}, PyFloat(15), NoStyle),
                DictCell({"style"}, PyNone, One("nosuch"))}
          ELSE {})
    \cup (IF p = "cascade"
          THEN {DictCell({"value", "style"}, PyInt(10), s) : s \in StyleOpts \ {One("bold")}}
          ELSE {})
    \cup (IF p = "styles"
          THEN {DictCell({"value", "style"}, PyInt(10), s) : s \in UserStyleOpts}
          ELSE {})
    \cup (IF p = "span"
          THEN SpanCells
          ELSE {})
    \cup (IF p = "shared" THEN {SpanCell({"colspanned"}, 2, 1)} ELSE {})
    \cup (IF p = "cycle"
          THEN {DictCell({"value", "style"}, PyInt(10), One("ping"))}
          ELSE {})
    \cup (IF p = "scalars" THEN {Scalar(PyStr("b"))} ELSE {})
    \cup (IF p = "cell"
          THEN {CellNode("dict", {"value", "text"}, PyFloat(15), NoStyle, "1,5", None, 1, 1, <<>>),
                CellNode("dict", {"value", "formula"}, PyInt(10), NoStyle, None,
                         "of:=SUM([.A1:.B1])", 1, 1, <<>>),
                CellNode("dict", {"value", "attr"}, PyStr("a"), NoStyle, None, None, 1, 1,
                         <<[key |-> "office:currency", value |-> "EUR"]>>),
                CellNode("dict", {"value", "text", "formula", "attr"}, PyInt(10), NoStyle,
                         "ten", "of:=[.A1]", 1, 1,
                         <<[key |-> "table:protected", value |-> "true"]>>),
                DictCell({"value", "style"}, PyFloat(15), One("cell_decimal2"))}
          ELSE {})

(***************************************************************************)
(* The writer's objects.                                                   *)
(***************************************************************************)
\* Table(name)
Table(name) == [name |-> name, rows |-> <<>>, columns |-> <<>>, spans |-> <<>>]
NoTable == Table(None)

\* Row(style=...)
Row(style) == [style |-> style, cells |-> <<>>]

\* the cell built after the loop over attr has rebound the name value
CellAfterAttr(value, style, text, formula, attr, x, y) ==
    [value |-> IF attr # <<>> THEN PyStr(attr[Len(attr)].value) ELSE value,
     style |-> style, text |-> text, formula |-> formula,
     attr |-> attr, x |-> x, y |-> y]

\* Cell(value=..., style=..., text=..., formula=...) with its attributes set,
\* at the coordinate row.append gives it
Cell(value, style, text, formula, attr, x, y) ==
    [value |-> value, style |-> style, text |-> text, formula |-> formula,
     attr |-> attr, x |-> x, y |-> y]

\* Document("spreadsheet") after body.clear()
Document == [styles |-> <<>>, body |-> <<>>]

\* a row inserted ahead of the rows of the table
insert_row_first(t, row) == [t EXCEPT !.rows = <<row>> \o @]

\* table.append_row(row)
append_row(t, row) == [t EXCEPT !.rows = Append(@, row)]

\* row.append(cell), on the last row of the table
append_cell(t, cell) == [t EXCEPT !.rows[Len(t.rows)].cells = Append(@, cell)]

VARIABLES
    profile,              \* the family of options this behaviour draws from
    size,                 \* description objects consumed so far
    pc,                   \* where the process is
    content,              \* the description being parsed, as far as iterated
    defaults,             \* the module's DEFAULTS_DICT object
    doc,                  \* self.doc
    tab_counter,          \* self.tab_counter
    styles_elements,      \* self.styles_elements
    used_styles,          \* self.used_styles
    spanned_cells,        \* self.spanned_cells
    table,                \* parse_table's table
    style_table_row,      \* parse_table's style_table_row
    style_table_cell,     \* parse_table's style_table_cell
    row_style_table_cell, \* parse_row's style_table_cell
    shared_span,          \* what the shared span list of the description holds
    guessed,              \* the guess_style calls of the last step
    calls                 \* the calls made on tables and rows of the writer

vars ==
    <<profile, size, pc, content, defaults, doc, tab_counter, styles_elements,
      used_styles, spanned_cells, table, style_table_row, style_table_cell,
      row_style_table_cell, shared_span, guessed, calls>>

\* an entry of content: the node as described, the options split leaves
\* (the node itself when it is a mapping), whether split yields content
NoContent ==
    [node |-> DocNode("list", {}, NoDefaults, <<>>),
     opt |-> DocNode("list", {}, NoDefaults, <<>>), inner |-> FALSE, tabs |-> <<>>]

EmptyCatalog == [name \in {} |-> None]

Init ==
    /\ profile \in Profiles
    /\ size = 0
    /\ pc = "idle"
    /\ content = NoContent
    /\ defaults = DEFAULTS_DICT
    /\ doc = Document
    /\ tab_counter = 0
    /\ styles_elements = EmptyCatalog
    /\ used_styles = {}
    /\ spanned_cells = <<>>
    /\ table = NoTable
    /\ style_table_row = None
    /\ style_table_cell = None
    /\ row_style_table_cell = None
    /\ shared_span = SharedSpan.items
    /\ guessed = <<>>
    /\ calls = <<>>

\* the style state of the generator, and its write-back
Gen == [styles_elements |-> styles_elements, used_styles |-> used_styles,
        inserted |-> doc.styles]

\* one recorded guess_style call
Guess(opt, family, default, result) ==
    [names |-> StyleList(opt), family |-> family, default |-> default,
     result |-> result]

\* the defaults option left unread
KeepDefaults(d, o) == d

\* dict.update of the defaults
UpdateDefaults(d, o) ==
    [k \in DefaultKeys |-> IF o[k] # Absent THEN o[k] ELSE d[k]]

\* self.defaults = DEFAULTS_DICT in __init__: the generator's defaults are
\* the module's dict object itself
InitDefaults(moduleDict) == moduleDict

(***************************************************************************)
(* ODSGenerator(content): __init__ and the top level of parse.             *)
(***************************************************************************)
Parse(node) ==
    /\ pc \in {"idle", "saved", "failed"}
    /\ size < MaxSize
    /\ size' = size + 1
    /\ LET opt == split(node, "body")
           g0 == [styles_elements |-> EmptyCatalog, used_styles |-> {},
                  inserted |-> <<>>]
           g1 == parse_styles(g0, DEFAULT_STYLES, FALSE, 1)
           styles == IF "styles" \in opt.has THEN opt.styles ELSE <<>>
           g2 == parse_styles(g1, UntilMalformed(styles), TRUE, 1)
       IN  /\ content' = [node |-> node, opt |-> opt, inner |-> HasInner(node, "body"),
                          tabs |-> <<>>]
           /\ defaults' = UpdateDefaults(InitDefaults(defaults),
                             IF "defaults" \in opt.has THEN opt.defaults ELSE NoDefaults)
           /\ styles_elements' = g2.styles_elements
           /\ used_styles' = g2.used_styles
           /\ doc' = [styles |-> g2.inserted, body |-> <<>>]
    /\ tab_counter' = 0
    /\ spanned_cells' = <<>>
    /\ table' = NoTable
    /\ style_table_row' = None
    /\ style_table_cell' = None
    /\ row_style_table_cell' = None
    /\ shared_span' = SharedSpan.items
    /\ guessed' = <<>>
    /\ calls' = <<>>
    /\ pc' = IF /\ Iterable(node)
                /\ "styles" \in node.has => UntilMalformed(node.styles) = node.styles
             THEN "body" ELSE "failed"
    /\ UNCHANGED profile

(***************************************************************************)
(* parse_table, up to its loop over the rows.                              *)
(***************************************************************************)
\* the default name counted from zero
TabNameFromZero(opt, n) ==
    IF "name" \in opt.has THEN opt.name ELSE DEFAULT_TAB_PREFIX \o " " \o ToStr(n - 1)

\* opt.get(NAME, f"{DEFAULT_TAB_PREFIX} {self.tab_counter}")
TabName(opt, n) ==
    IF "name" \in opt.has THEN opt.name ELSE DEFAULT_TAB_PREFIX \o " " \o ToStr(n)

ParseTable(node) ==
    /\ pc = "body"
    /\ content.inner
    /\ MayHold(content.node, Len(content.tabs), node)
    /\ size < MaxSize
    /\ size' = size + 1
    /\ LET opt == split(node, "table")
           row_style == guess_style(styles_elements, opt, "table-row",
                                    defaults["style_table_row"])
           cell_style == guess_style(styles_elements, opt, "table-cell",
                                     defaults["style_table_cell"])
       IN  /\ content' = [content EXCEPT !.tabs = Append(@,
                            [node |-> node, opt |-> opt,
                             inner |-> HasInner(node, "table"), rows |-> <<>>])]
           /\ tab_counter' = tab_counter + 1
           /\ table' = Table(TabName(opt, tab_counter + 1))
           /\ style_table_row' = row_style
           /\ style_table_cell' = cell_style
           /\ guessed' = <<Guess(opt, "table-row", defaults["style_table_row"], row_style),
                           Guess(opt, "table-cell", defaults["style_table_cell"], cell_style)>>
    /\ spanned_cells' = <<>>
    /\ row_style_table_cell' = None
    /\ pc' = IF Iterable(node) THEN "table" ELSE "failed"
    /\ UNCHANGED <<profile, defaults, doc, styles_elements, used_styles, shared_span,
                   calls>>

\* the tab and the row being parsed
CurTab == content.tabs[Len(content.tabs)]
CurRow == CurTab.rows[Len(CurTab.rows)]

(***************************************************************************)
(* parse_row, up to its loop over the cells.                               *)
(***************************************************************************)
\* parse_row storing what it resolved as the seeds of the tab
ParseRowCarrying(node) ==
    /\ pc \in {"table", "row"}
    /\ CurTab.inner
    /\ pc = "row" => Exhausted(CurRow.node, Len(CurRow.cells))
    /\ MayHold(CurTab.node, Len(CurTab.rows), node)
    /\ size < MaxSize
    /\ size' = size + 1
    /\ LET opt == split(node, "row")
           row_style == guess_style(styles_elements, opt, "table-row", style_table_row)
           g == insert_style(Gen, row_style)
           cell_style == guess_style(styles_elements, opt, "table-cell", style_table_cell)
       IN  /\ content' = [content EXCEPT !.tabs[Len(content.tabs)].rows = Append(@,
                            [node |-> node, opt |-> opt,
                             inner |-> HasInner(node, "row"), cells |-> <<>>])]
           /\ used_styles' = g.used_styles
           /\ doc' = [doc EXCEPT !.styles = g.inserted]
           /\ table' = append_row(table, Row(row_style))
           /\ row_style_table_cell' = cell_style
           /\ style_table_row' = row_style
           /\ style_table_cell' = cell_style
           /\ guessed' = <<Guess(opt, "table-row", style_table_row, row_style),
                           Guess(opt, "table-cell", style_table_cell, cell_style)>>
    /\ calls' = Append(calls, [op |-> "append_row", tab |-> tab_counter])
    /\ pc' = IF Iterable(node) THEN "row" ELSE "failed"
    /\ UNCHANGED <<profile, defaults, tab_counter, styles_elements, spanned_cells,
                   shared_span>>

\* ODSGenerator.parse_row(table, row_content, style_table_row, style_table_cell)
ParseRow(node) ==
    /\ pc \in {"table", "row"}
    /\ CurTab.inner
    /\ pc = "row" => Exhausted(CurRow.node, Len(CurRow.cells))
    /\ MayHold(CurTab.node, Len(CurTab.rows), node)
    /\ size < MaxSize
    /\ size' = size + 1
    /\ LET opt == split(node, "row")
           row_style == guess_style(styles_elements, opt, "table-row", style_table_row)
           g == insert_style(Gen, row_style)
           cell_style == guess_style(styles_elements, opt, "table-cell", style_table_cell)
       IN  /\ content' = [content EXCEPT !.tabs[Len(content.tabs)].rows = Append(@,
                            [node |-> node, opt |-> opt,
                             inner |-> HasInner(node, "row"), cells |-> <<>>])]
           /\ used_styles' = g.used_styles
           /\ doc' = [doc EXCEPT !.styles = g.inserted]
           /\ table' = append_row(table, Row(row_style))
           /\ row_style_table_cell' = cell_style
           /\ guessed' = <<Guess(opt, "table-row", style_table_row, row_style),
                           Guess(opt, "table-cell", style_table_cell, cell_style)>>
    /\ calls' = Append(calls, [op |-> "append_row", tab |-> tab_counter])
    /\ pc' = IF Iterable(node) THEN "row" ELSE "failed"
    /\ UNCHANGED <<profile, defaults, tab_counter, styles_elements, spanned_cells,
                   style_table_row, style_table_cell, shared_span>>

(***************************************************************************)
(* parse_cell and store_spanned_cell.                                      *)
(***************************************************************************)
\* split without its isinstance test: every node read as a mapping
CellValueOfMapping(node) ==
    IF "value" \in node.has THEN node.value ELSE PyList(<<>>)

\* the value split(cell_content, VALUE) extracts
CellValue(node) ==
    IF node.kind = "dict"
    THEN IF "value" \in node.has THEN node.value ELSE PyList(<<>>)
    ELSE node.value

\* parse_cell choosing by the type of the value alone
TypeDefaultWithoutSeed(d, seed, value) ==
    IF value.t = "none" \/ value.t = "str" THEN d["style_str"]
    ELSE IF value.t = "int" \/ value.t = "bool" THEN d["style_int"]
    ELSE IF value.t = "float" THEN d["style_float"]
    ELSE d["style_other"]

\* parse_cell without its test for None
TypeDefaultNoneAsOther(d, seed, value) ==
    IF TruthyName(seed) THEN seed
    ELSE IF value.t = "str" THEN d["style_str"]
    ELSE IF value.t = "int" \/ value.t = "bool" THEN d["style_int"]
    ELSE IF value.t = "float" THEN d["style_float"]
    ELSE d["style_other"]

\* the default style of parse_cell
TypeDefault(d, seed, value) ==
    IF TruthyName(seed) THEN seed
    ELSE IF value.t = "none" \/ value.t = "str" THEN d["style_str"]
    ELSE IF value.t = "int" \/ value.t = "bool" THEN d["style_int"]
    ELSE IF value.t = "float" THEN d["style_float"]
    ELSE d["style_other"]

Max(a, b) == IF a >= b THEN a ELSE b

\* store_spanned_cell taking the counts as given
store_spanned_cell_unclamped(spanned, x, y, opt) ==
    LET colspan == IF "colspanned" \in opt.has THEN opt.colspanned ELSE 1
        rowspan == IF "rowspanned" \in opt.has THEN opt.rowspanned ELSE 1
    IN  IF colspan < 2 /\ rowspan < 2 THEN spanned
        ELSE Append(spanned, Rect(x, y, x + colspan - 1, y + rowspan - 1))

\* ODSGenerator.store_spanned_cell(cell, opt)
store_spanned_cell(spanned, x, y, opt) ==
    LET colspan == Max(1, IF "colspanned" \in opt.has THEN opt.colspanned ELSE 1)
        rowspan == Max(1, IF "rowspanned" \in opt.has THEN opt.rowspanned ELSE 1)
    IN  IF colspan < 2 /\ rowspan < 2 THEN spanned
        ELSE Append(spanned, Rect(x, y, x + colspan - 1, y + rowspan - 1))

ParseCell(node) ==
    /\ pc = "row"
    /\ CurRow.inner
    /\ MayHold(CurRow.node, Len(CurRow.cells), node)
    /\ size < MaxSize
    /\ size' = size + 1
    /\ LET value == CellValue(node)
           opt == split(node, "value")
           default == TypeDefault(defaults, row_style_table_cell, value)
           style == guess_style(styles_elements, opt, "table-cell", default)
           g == insert_style(Gen, style)
           y == Len(table.rows) - 1
           x == Len(table.rows[y + 1].cells)
           cell == Cell(value, style,
                        IF "text" \in opt.has THEN opt.text ELSE None,
                        IF "formula" \in opt.has THEN opt.formula ELSE None,
                        IF "attr" \in opt.has THEN opt.attr ELSE <<>>, x, y)
       IN  /\ content' = [content EXCEPT
                            !.tabs[Len(content.tabs)].rows[Len(CurTab.rows)].cells =
                                Append(@, [node |-> node, opt |-> opt])]
           /\ used_styles' = g.used_styles
           /\ doc' = [doc EXCEPT !.styles = g.inserted]
           /\ table' = append_cell(table, cell)
           /\ spanned_cells' =
                IF "colspanned" \in opt.has \/ "rowspanned" \in opt.has
                THEN store_spanned_cell(spanned_cells, x, y, opt)
                ELSE spanned_cells
           /\ guessed' = <<Guess(opt, "table-cell", default, style)>>
    /\ calls' = Append(calls, [op |-> "append_cell", tab |-> tab_counter])
    /\ pc' = "row"
    /\ UNCHANGED <<profile, defaults, tab_counter, styles_elements,
                   style_table_row, style_table_cell, row_style_table_cell,
                   shared_span>>

(***************************************************************************)
(* parse_width and column_width_style.                                     *)
(***************************************************************************)
\* the columns a table has: as many as its widest row has cells
RECURSIVE RowWidth(_, _)
RowWidth(rows, i) ==
    IF i > Len(rows) THEN 0 ELSE Max(Len(rows[i].cells), RowWidth(rows, i + 1))

\* the columns of the table, unstyled ones included, up to position n
Columns(t, n) ==
    [i \in 1..Max(n, Max(Len(t.columns), RowWidth(t.rows, 1))) |->
        IF i <= Len(t.columns) THEN t.columns[i] ELSE None]

\* column_width_style(width): the writer inserts an automatic style of
\* family table-column and names it
column_width_style(styles, width) ==
    LET n == Cardinality({i \in DOMAIN styles : styles[i].family = "table-column"})
    IN  [name |-> "odfdo_auto_" \o ToStr(n + 1), family |-> "table-column",
         id |-> width, automatic |-> TRUE]

\* get_column(position), column.style = column_width_style(width),
\* set_column(position, column) on w = [table, styles]
set_column_width(w, position, width) ==
    LET call == column_width_style(w.styles, width)
    IN  [table |-> [w.table EXCEPT !.columns =
                        [Columns(w.table, position + 1) EXCEPT ![position + 1] = call.name]],
         styles |-> Append(w.styles, call)]

RECURSIVE width_list_every(_, _, _)
\* the loop over a list of widths without its test of each width
width_list_every(w, items, i) ==
    IF i > Len(items) THEN w
    ELSE width_list_every(set_column_width(w, i - 1, items[i]), items, i + 1)

RECURSIVE width_list(_, _, _)
\* the loop of parse_width over a list of widths, from position i - 1 on
width_list(w, items, i) ==
    IF i > Len(items) THEN w
    ELSE width_list(IF items[i] # "" THEN set_column_width(w, i - 1, items[i]) ELSE w,
                    items, i + 1)

RECURSIVE width_all(_, _, _, _)
\* the loop of parse_width over the n columns of the table
width_all(w, width, i, n) ==
    IF i > n THEN w
    ELSE width_all(set_column_width(w, i - 1, width), width, i + 1, n)

\* parse_width(table, opt) on w = [table, styles]
parse_width(w, opt) ==
    IF "width" \notin opt.has \/ opt.width.items = <<>> THEN w
    ELSE IF opt.width.isList THEN width_list(w, opt.width.items, 1)
    ELSE IF opt.width.items[1] = "" THEN w
    ELSE width_all(w, opt.width.items[1], 1, RowWidth(w.table.rows, 1))

RECURSIVE Repeat(_, _)
Repeat(x, n) == IF n = 0 THEN <<>> ELSE <<x>> \o Repeat(x, n - 1)

(***************************************************************************)
(* parse_spanned.                                                          *)
(***************************************************************************)
\* opt.get(SPAN)
SpanOpt(opt) == IF "span" \in opt.has THEN opt.span ELSE PyNone

\* whether the span option is wrapped into a one-element list
WrapSpan(span_opt) == span_opt.t # "list"

\* the list parse_spanned iterates over
parse_spanned(opt, spanned) ==
    LET span_opt == SpanOpt(opt)
    IN  IF Truthy(span_opt)
        THEN (IF WrapSpan(span_opt) THEN <<span_opt>> ELSE span_opt.items) \o spanned
        ELSE spanned

\* span_opt.extend(self.spanned_cells) on a list of the description
ExtendSpan(opt, spanned) ==
    IF Truthy(SpanOpt(opt)) /\ SpanOpt(opt).t = "list"
    THEN [opt EXCEPT !.span = PyList(@.items \o spanned)]
    ELSE opt

\* opt as parse_spanned reads it: a "span" key bound to the shared list
\* object yields what that object holds now
Deref(opt, shared) ==
    IF "span" \in opt.has /\ opt.span.t = "list" /\ opt.span.s = SharedSpan.s
    THEN [opt EXCEPT !.span.items = shared]
    ELSE opt

\* the shared list object after span_opt.extend(self.spanned_cells)
ExtendShared(opt, shared, spanned) ==
    IF "span" \in opt.has /\ opt.span.t = "list" /\ opt.span.s = SharedSpan.s
    THEN ExtendSpan(Deref(opt, shared), spanned).span.items
    ELSE shared

\* an area the writer cannot read as a region: neither a range string nor
\* a list of coordinates
BadArea(area) == area.t \notin {"str", "list"}

\* the number of set_span calls made when the writer raises on the first
\* area it cannot read
CallsUntilBad(areas) ==
    IF \E i \in DOMAIN areas : BadArea(areas[i])
    THEN CHOOSE i \in DOMAIN areas :
            BadArea(areas[i]) /\ \A j \in 1..(i - 1) : ~BadArea(areas[j])
    ELSE Len(areas)

\* parse_spanned called before parse_width
EndCallsSpanFirst(columns, spans, tab) ==
    Repeat([op |-> "set_span", tab |-> tab], spans)
    \o Repeat([op |-> "set_column", tab |-> tab], columns)

\* the calls parse_width and then parse_spanned make on the table of a tab
EndCalls(columns, spans, tab) ==
    Repeat([op |-> "set_column", tab |-> tab], columns)
    \o Repeat([op |-> "set_span", tab |-> tab], spans)

(***************************************************************************)
(* The end of parse_table: parse_width, parse_spanned and the append of    *)
(* the table to the document.  A set_span call on an area the writer       *)
(* cannot read may raise, which ends the parse.                            *)
(***************************************************************************)
EndTable ==
    /\ pc \in {"table", "row"}
    /\ pc = "row" => Exhausted(CurRow.node, Len(CurRow.cells))
    /\ Exhausted(CurTab.node, Len(CurTab.rows))
    /\ \E raises \in BOOLEAN :
         LET w == parse_width([table |-> table, styles |-> doc.styles], CurTab.opt)
             areas == parse_spanned(Deref(CurTab.opt, shared_span), spanned_cells)
             n == IF raises THEN CallsUntilBad(areas) ELSE Len(areas)
             failed == raises /\ \E i \in DOMAIN areas : BadArea(areas[i])
             done == [w.table EXCEPT !.spans = SubSeq(areas, 1, n)]
             made == calls \o EndCalls(Len(w.styles) - Len(doc.styles), n, tab_counter)
         IN  /\ table' = IF failed THEN done ELSE NoTable
             /\ doc' = [styles |-> w.styles,
                        body |-> IF failed THEN doc.body ELSE Append(doc.body, done)]
             /\ calls' = IF failed THEN made
                         ELSE Append(made, [op |-> "append_table", tab |-> tab_counter])
             /\ pc' = IF failed THEN "failed" ELSE "body"
    /\ content' = [content EXCEPT !.tabs[Len(content.tabs)].opt =
                        ExtendSpan(Deref(@, shared_span), spanned_cells)]
    /\ shared_span' = ExtendShared(CurTab.opt, shared_span, spanned_cells)
    /\ guessed' = <<>>
    /\ UNCHANGED <<profile, size, defaults, tab_counter, styles_elements,
                   used_styles, spanned_cells, style_table_row, style_table_cell,
                   row_style_table_cell>>

(***************************************************************************)
(* The end of parse, followed by save.                                     *)
(***************************************************************************)
\* the loop of parse is over: ods_bytes and content_to_ods save the document
\* save called whether or not the parse raised
SaveWhatever ==
    /\ pc \in {"body", "failed"}
    /\ pc' = "saved"
    /\ UNCHANGED <<profile, size, content, defaults, doc, tab_counter,
                   styles_elements, used_styles, spanned_cells, table,
                   style_table_row, style_table_cell, row_style_table_cell,
                   shared_span, guessed, calls>>

Save ==
    /\ pc = "body"
    /\ Exhausted(content.node, Len(content.tabs))
    /\ pc' = "saved"
    /\ guessed' = <<>>
    /\ UNCHANGED <<profile, size, content, defaults, doc, tab_counter,
                   styles_elements, used_styles, spanned_cells, table,
                   style_table_row, style_table_cell, row_style_table_cell,
                   shared_span, calls>>

Next ==
    \/ \E node \in DocNodes(profile) : Parse(node)
    \/ \E node \in TabNodes(profile) : ParseTable(node)
    \/ \E node \in RowNodes(profile) : ParseRow(node)
    \/ \E node \in CellNodes(profile) : ParseCell(node)
    \/ EndTable
    \/ Save

Spec == Init /\ [][Next]_vars

(***************************************************************************)
(* Properties.  The description parsed is content; the document built is   *)
(* doc.body followed by the table under construction.                      *)
(***************************************************************************)
\* the t-th table built for the current description
OutTable(t) == IF t <= Len(doc.body) THEN doc.body[t] ELSE table

\* the tabs of the description that have a table, built or being built
BuiltTabs ==
    IF pc \in {"table", "row", "failed"} THEN DOMAIN content.tabs
    ELSE 1..Len(doc.body)

\* every level of the description is a bare sequence, every cell a scalar
BareDescription ==
    /\ content.node.kind = "list"
    /\ \A t \in DOMAIN content.tabs :
        /\ content.tabs[t].node.kind = "list"
        /\ \A r \in DOMAIN content.tabs[t].rows :
            /\ content.tabs[t].rows[r].node.kind = "list"
            /\ \A c \in DOMAIN content.tabs[t].rows[r].cells :
                content.tabs[t].rows[r].cells[c].node.kind = "scalar"

DefaultTabNames ==
    <<"Tab 1", "Tab 2", "Tab 3", "Tab 4", "Tab 5", "Tab 6", "Tab 7", "Tab 8", "Tab 9">>

\* C1: for a description made of bare sequences and bare scalars only, once
\* the body has been iterated the document has one tab per top-level
\* element, named "Tab n" at 1-based position n, one row per element of the
\* tab and one cell per element of the row, holding the element's value, in
\* input order.
C1_BareNesting ==
    (pc \in {"body", "saved"} /\ BareDescription) =>
        /\ Len(doc.body) = Len(content.tabs)
        /\ \A t \in DOMAIN content.tabs :
            /\ t <= Len(DefaultTabNames) => doc.body[t].name = DefaultTabNames[t]
            /\ Len(doc.body[t].rows) = Len(content.tabs[t].rows)
            /\ \A r \in DOMAIN content.tabs[t].rows :
                /\ Len(doc.body[t].rows[r].cells) = Len(content.tabs[t].rows[r].cells)
                /\ \A c \in DOMAIN content.tabs[t].rows[r].cells :
                    doc.body[t].rows[r].cells[c].value =
                        content.tabs[t].rows[r].cells[c].node.value

\* a saved bare description of two tabs, the second holding the row [10]
C1_Witness ==
    /\ pc = "saved"
    /\ BareDescription
    /\ Len(doc.body) = 2
    /\ doc.body[2].name = "Tab 2"
    /\ Len(doc.body[2].rows) = 1
    /\ Len(doc.body[2].rows[1].cells) = 1
    /\ doc.body[2].rows[1].cells[1].value = PyInt(10)

\* the value a cell of the description gives: the scalar itself, the entry
\* under "value" of a mapping, an empty sequence for a mapping without one
DescribedValue(node) ==
    CASE node.kind = "scalar" -> node.value
      [] node.kind = "dict" /\ "value" \in node.has -> node.value
      [] node.kind = "dict" /\ "value" \notin node.has -> PyList(<<>>)

\* C2: the writer is driven in description order and in one pass: the tables
\* appended are those of the tabs in order, each table holds one row per
\* row of its tab and each row one cell per cell of its row, in order, at
\* the coordinates of their positions; and every row or cell of a tab is
\* appended after the tables of all the tabs before it.
C2_DescriptionOrder ==
    /\ \A t \in BuiltTabs :
        /\ Len(OutTable(t).rows) = Len(content.tabs[t].rows)
        /\ \A r \in DOMAIN content.tabs[t].rows :
            /\ Len(OutTable(t).rows[r].cells) = Len(content.tabs[t].rows[r].cells)
            /\ \A c \in DOMAIN content.tabs[t].rows[r].cells :
                /\ OutTable(t).rows[r].cells[c].x = c - 1
                /\ OutTable(t).rows[r].cells[c].y = r - 1
                /\ OutTable(t).rows[r].cells[c].value =
                        DescribedValue(content.tabs[t].rows[r].cells[c].node)
    /\ \A j \in DOMAIN calls :
        /\ calls[j].op \in {"append_row", "append_cell"} =>
            \A k \in 1..(calls[j].tab - 1) :
                \E i \in 1..(j - 1) : calls[i] = [op |-> "append_table", tab |-> k]
        /\ \A i \in 1..(j - 1) :
            /\ calls[i].tab <= calls[j].tab
            /\ calls[i].op = "append_table" => calls[i].tab < calls[j].tab

\* a row and a cell appended to the second tab after the first tab was
\* appended
C2_Witness ==
    /\ pc = "row"
    /\ Len(doc.body) = 1
    /\ tab_counter = 2
    /\ calls[1] = [op |-> "append_table", tab |-> 1]
    /\ Len(table.rows) = 1
    /\ Len(table.rows[1].cells) = 1

\* C3: every guess_style call returns the first name of the style option
\* whose catalog entry has the requested family, whatever precedes it; when
\* no listed name matches, the fallback if its catalog entry has the
\* requested family; none otherwise.
C3_GuessStyle ==
    \A i \in DOMAIN guessed :
        LET g == guessed[i]
            matching == {j \in DOMAIN g.names :
                            /\ g.names[j] \in DOMAIN styles_elements
                            /\ styles_elements[g.names[j]].family = g.family}
        IN  IF matching # {}
            THEN \E j \in matching :
                    /\ \A k \in matching : j <= k
                    /\ g.result = g.names[j]
            ELSE IF /\ g.default \in DOMAIN styles_elements
                    /\ styles_elements[g.default].family = g.family
                 THEN g.result = g.default
                 ELSE g.result = None

\* a cell-family name found behind an unknown name and a row-family name,
\* and ahead of another cell-family name
C3_Witness ==
    \E i \in DOMAIN guessed :
        /\ guessed[i].names = <<"nosuch", "table_row_1cm", "center", "bold">>
        /\ guessed[i].family = "table-cell"
        /\ guessed[i].result = "center"

(***************************************************************************)
(* The style cascade, stated from the description.                         *)
(***************************************************************************)
\* the catalog entry of name has the family
Eligible(name, family) ==
    name \in DOMAIN styles_elements /\ styles_elements[name].family = family

\* the names of the "style" option of a node as described
OptNames(node) == IF "style" \in node.has THEN node.style.names ELSE <<>>

\* the first name of the list whose catalog entry has the family, or None
FirstOfFamily(names, family) ==
    LET matching == {j \in DOMAIN names : Eligible(names[j], family)}
    IN  IF matching = {} THEN None
        ELSE names[CHOOSE j \in matching : \A k \in matching : j <= k]

\* all the cells of the tables built or being built, by position
CellPositions ==
    UNION {UNION {{<<t, r, c>> : c \in DOMAIN content.tabs[t].rows[r].cells} :
                    r \in DOMAIN content.tabs[t].rows} :
           t \in BuiltTabs}

CellNodeAt(p) == content.tabs[p[1]].rows[p[2]].cells[p[3]].node
CellStyleAt(p) == OutTable(p[1]).rows[p[2]].cells[p[3]].style
CellValueAt(p) == OutTable(p[1]).rows[p[2]].cells[p[3]].value

\* the default configured for the type of a value; a boolean is an integer
\* to isinstance
TypeDefaultName(value) ==
    CASE value.t \in {"none", "str"} -> defaults["style_str"]
      [] value.t \in {"int", "bool"} -> defaults["style_int"]
      [] value.t = "float" -> defaults["style_float"]
      [] OTHER -> defaults["style_other"]

\* the cell-style seed of a row as the claim words it: the row's own
\* cell-family style, else the tab's, else defaults style_table_cell
SeedAsWorded(t, r) ==
    LET rowOwn == FirstOfFamily(OptNames(content.tabs[t].rows[r].node), "table-cell")
        tabOwn == FirstOfFamily(OptNames(content.tabs[t].node), "table-cell")
    IN  IF rowOwn # None THEN rowOwn
        ELSE IF tabOwn # None THEN tabOwn
        ELSE defaults["style_table_cell"]

\* the same seed, a default counting only when it names a cell-family
\* style of the catalog
Seed(t, r) ==
    IF Eligible(SeedAsWorded(t, r), "table-cell") THEN SeedAsWorded(t, r) ELSE None

\* C4 as worded: own cell-family style, else the non-empty seed (row's own,
\* else tab's, else defaults style_table_cell), else the value-type default.
C4_AsWorded ==
    \A p \in CellPositions :
        LET own == FirstOfFamily(OptNames(CellNodeAt(p)), "table-cell")
            seed == SeedAsWorded(p[1], p[2])
        IN  CellStyleAt(p) =
                IF own # None THEN own
                ELSE IF seed # "" THEN seed
                ELSE TypeDefaultName(CellValueAt(p))

\* C4: a cell's style is the first cell-family entry of its own style
\* option; else the seed inherited from its row (the row's own cell-family
\* style, else the tab's, else defaults style_table_cell when that names a
\* cell-family style of the catalog); else the value-type default when that
\* names a cell-family style of the catalog; else none.
C4_CellPrecedence ==
    \A p \in CellPositions :
        LET own == FirstOfFamily(OptNames(CellNodeAt(p)), "table-cell")
            seed == Seed(p[1], p[2])
            byType == TypeDefaultName(CellValueAt(p))
        IN  CellStyleAt(p) =
                IF own # None THEN own
                ELSE IF seed # None THEN seed
                ELSE IF Eligible(byType, "table-cell") THEN byType
                ELSE None

\* a cell whose own style is of the row family, in a row whose cell-family
\* style "center" overrides the tab's "bold"
C4_Witness ==
    /\ pc = "row"
    /\ style_table_cell = "bold"
    /\ row_style_table_cell = "center"
    /\ \E p \in CellPositions :
        /\ OptNames(CellNodeAt(p)) = <<"table_row_1cm">>
        /\ CellStyleAt(p) = "center"

\* a cell without a style option of its own, of a null, string, integer or
\* floating-point value
Unstyled(p) ==
    /\ "style" \notin CellNodeAt(p).has
    /\ CellValueAt(p).t \in {"none", "str", "int", "float"}

\* C5 as worded: every cell without a style option of its own resolves to
\* the default configured for its value type.
C5_AsWorded ==
    \A p \in CellPositions :
        Unstyled(p) => CellStyleAt(p) = TypeDefaultName(CellValueAt(p))

\* C5: every cell without a style option of its own that inherits no
\* cell-style seed resolves to the default configured for its value type
\* when that names a cell-family style of the catalog, and to none
\* otherwise.
C5_TypeDefault ==
    \A p \in CellPositions :
        (Unstyled(p) /\ Seed(p[1], p[2]) = None) =>
            CellStyleAt(p) =
                IF Eligible(TypeDefaultName(CellValueAt(p)), "table-cell")
                THEN TypeDefaultName(CellValueAt(p))
                ELSE None

\* a null cell resolved to the overridden style_str, and a floating-point
\* cell resolved to none under an unknown style_float
C5_Witness ==
    /\ defaults["style_str"] = "bold"
    /\ \E p \in CellPositions :
        /\ Unstyled(p)
        /\ Seed(p[1], p[2]) = None
        /\ \/ CellValueAt(p).t = "none" /\ CellStyleAt(p) = "bold"
           \/ CellValueAt(p).t = "float" /\ CellStyleAt(p) = None

\* the document overrides style_int, and the cell is a plain integer
OverriddenInt(p) ==
    /\ "defaults" \in content.node.has
    /\ content.node.defaults["style_int"] # Absent
    /\ "style" \notin CellNodeAt(p).has
    /\ CellValueAt(p).t = "int"

\* C6 as worded: under a defaults override of style_int a plain integer cell
\* resolves to the overriding name, not to "right".
C6_AsWorded ==
    \A p \in CellPositions :
        OverriddenInt(p) =>
            /\ CellStyleAt(p) = content.node.defaults["style_int"]
            /\ CellStyleAt(p) # "right"

\* C6: under a defaults override of style_int that names a cell-family style
\* of the catalog, a plain integer cell that inherits no cell-style seed
\* resolves to the overriding name, not to "right".
C6_DefaultsOverride ==
    \A p \in CellPositions :
        (/\ OverriddenInt(p)
         /\ Eligible(content.node.defaults["style_int"], "table-cell")
         /\ Seed(p[1], p[2]) = None) =>
            /\ CellStyleAt(p) = content.node.defaults["style_int"]
            /\ CellStyleAt(p) # "right"

\* the integer 10 resolved to the overriding "center"
C6_Witness ==
    \E p \in CellPositions :
        /\ OverriddenInt(p)
        /\ CellNodeAt(p).kind = "scalar"
        /\ content.node.defaults["style_int"] = "center"
        /\ CellStyleAt(p) = "center"

(***************************************************************************)
(* The Defaults record across parses.                                      *)
(***************************************************************************)
\* the "defaults" option of the document being parsed
DescribedDefaults ==
    IF "defaults" \in content.node.has THEN content.node.defaults ELSE NoDefaults

\* C7 as worded: every parse starts from the built-in defaults, so the
\* defaults in force during a parse are the built-in ones updated by the
\* "defaults" option of that document alone.
C7_FreshDefaults ==
    pc # "idle" => defaults = UpdateDefaults(DEFAULTS_DICT, DescribedDefaults)

(***************************************************************************)
(* Style insertion.                                                        *)
(***************************************************************************)
\* the insertions made by insert_style: those of column_width_style are of
\* family table-column
InsertStyleCalls == {i \in DOMAIN doc.styles : doc.styles[i].family # "table-column"}

\* C8: during one parse the writer receives at most one insertion call for
\* each style name, the used set holds exactly the names inserted, and an
\* insert_style call with an empty, unknown or already-inserted name leaves
\* the used set and the document as they are.
C8_InsertOnce ==
    /\ \A i, j \in InsertStyleCalls :
        doc.styles[i].name = doc.styles[j].name => i = j
    /\ used_styles = {doc.styles[i].name : i \in InsertStyleCalls}
    /\ \A name \in {"", None, "nosuch"} \cup used_styles :
        insert_style(Gen, name) = Gen

\* two rows of one table carry the same row style, inserted once
C8_Witness ==
    /\ pc = "row"
    /\ Len(table.rows) = 2
    /\ table.rows[1].style = "table_row_1cm"
    /\ table.rows[2].style = "table_row_1cm"
    /\ Cardinality({i \in InsertStyleCalls : doc.styles[i].name = "table_row_1cm"}) = 1

(***************************************************************************)
(* Span regions.                                                           *)
(***************************************************************************)
\* the span counts a cell of the description carries, a missing one being 1
\* and one below 1 being 1
Count(node, key) ==
    IF key \notin node.has THEN 1
    ELSE IF key = "colspanned" THEN Max(1, node.colspanned)
    ELSE Max(1, node.rowspanned)

\* the cells of the tab being parsed, or parsed last, that carry a count
\* of 2 or more: <<r, c>> is the c-th cell of the r-th row
Spanning ==
    LET tab == content.tabs[Len(content.tabs)]
        cells == UNION {{<<r, c>> : c \in DOMAIN tab.rows[r].cells} :
                        r \in DOMAIN tab.rows}
    IN  {q \in cells :
            LET node == tab.rows[q[1]].cells[q[2]].node
            IN  Count(node, "colspanned") >= 2 \/ Count(node, "rowspanned") >= 2}

\* the region of such a cell
RegionOf(q) ==
    LET node == content.tabs[Len(content.tabs)].rows[q[1]].cells[q[2]].node
    IN  Rect(q[2] - 1, q[1] - 1,
             q[2] - 1 + Count(node, "colspanned") - 1,
             q[1] - 1 + Count(node, "rowspanned") - 1)

\* C9: the regions recorded for a tab are exactly the regions
\* [x, y, x+max(1,c)-1, y+max(1,r)-1] of its cells at zero-based (x, y) that
\* carry colspanned=c and/or rowspanned=r with max(1,c) >= 2 or
\* max(1,r) >= 2; a cell whose counts are both 1, missing or below 1
\* records nothing.
C9_SpannedCells ==
    content.tabs # <<>> =>
        /\ Len(spanned_cells) = Cardinality(Spanning)
        /\ \A q \in Spanning :
            \E i \in DOMAIN spanned_cells : spanned_cells[i] = RegionOf(q)

\* the second cell of a row records [1,0,2,0] for colspanned=2, and a cell
\* with colspanned=0 and rowspanned=3 records a region one column wide
C9_Witness ==
    /\ pc = "row"
    /\ \/ spanned_cells = <<Rect(1, 0, 2, 0)>>
       \/ /\ spanned_cells = <<Rect(0, 0, 0, 2)>>
          /\ content.tabs[1].rows[1].cells[1].node.colspanned = 0
          /\ "colspanned" \in content.tabs[1].rows[1].cells[1].node.has

\* a span option that is one region: a range string or a rectangle
SingleRegion(span) ==
    \/ span.t = "str"
    \/ span.t = "list" /\ span.items # <<>> /\ \A i \in DOMAIN span.items : span.items[i].t = "int"

\* the explicit regions of a span option as the claim words them
ExplicitRegions(span) ==
    IF ~Truthy(span) THEN <<>>
    ELSE IF SingleRegion(span) THEN <<span>>
    ELSE span.items

\* C10 as worded: when a tab is finalized the writer's merge operation has
\* been called once for a single explicit region, once per region of an
\* explicit list in order, and then once per recorded region in recording
\* order.
C10_AsWorded ==
    (pc \in {"body", "failed"} /\ content.tabs # <<>>) =>
        LET last == Len(content.tabs)
            span == SpanOpt(content.tabs[last].node)
        IN  OutTable(last).spans = ExplicitRegions(span) \o spanned_cells

(***************************************************************************)
(* Span regions tab by tab.                                                *)
(***************************************************************************)
\* the regions a "span" option lists, as parse_spanned iterates them
ListedRegions(span) ==
    IF ~Truthy(span) THEN <<>>
    ELSE IF span.t = "list" THEN span.items
    ELSE <<span>>

\* the cells of tab t that carry a count of 2 or more
SpanningOf(t) ==
    LET tab == content.tabs[t]
        cells == UNION {{<<r, c>> : c \in DOMAIN tab.rows[r].cells} :
                        r \in DOMAIN tab.rows}
    IN  {q \in cells :
            LET node == tab.rows[q[1]].cells[q[2]].node
            IN  Count(node, "colspanned") >= 2 \/ Count(node, "rowspanned") >= 2}

\* the region of such a cell of tab t
RegionIn(t, q) ==
    LET node == content.tabs[t].rows[q[1]].cells[q[2]].node
    IN  Rect(q[2] - 1, q[1] - 1,
             q[2] - 1 + Count(node, "colspanned") - 1,
             q[1] - 1 + Count(node, "rowspanned") - 1)

\* C11 as worded: the accumulator is empty when a tab starts, and the
\* regions merged on every tab appended to the document are the regions
\* its own "span" option lists in the description, followed by the regions
\* recorded by its own cells and by nothing else.
C11_NoLeak ==
    /\ (pc = "table" /\ CurTab.rows = <<>>) => spanned_cells = <<>>
    /\ \A t \in 1..Len(doc.body) :
        LET listed == ListedRegions(SpanOpt(content.tabs[t].node))
            merged == doc.body[t].spans
        IN  /\ Len(merged) = Len(listed) + Cardinality(SpanningOf(t))
            /\ SubSeq(merged, 1, Len(listed)) = listed
            /\ {merged[i] : i \in (Len(listed) + 1)..Len(merged)} =
                    {RegionIn(t, q) : q \in SpanningOf(t)}

(***************************************************************************)
(* Unresolvable style references.                                          *)
(***************************************************************************)
\* the rows of the tables built or being built, by position
RowPositions ==
    UNION {{<<t, r>> : r \in DOMAIN content.tabs[t].rows} : t \in BuiltTabs}

RowNodeAt(p) == content.tabs[p[1]].rows[p[2]].node

\* a style option that is given and names no catalog style of the family
Unresolvable(node, family) ==
    /\ "style" \in node.has
    /\ OptNames(node) # <<>>
    /\ FirstOfFamily(OptNames(node), family) = None

\* the row style a tab hands down: its own first row-family style, else
\* defaults style_table_row when that names a row-family style
TabRowStyle(t) ==
    LET tabOwn == FirstOfFamily(OptNames(content.tabs[t].node), "table-row")
    IN  IF tabOwn # None THEN tabOwn
        ELSE IF Eligible(defaults["style_table_row"], "table-row")
             THEN defaults["style_table_row"]
        ELSE None

C13_ScalarIsFatal ==
    /\ content.node.kind = "scalar" => (pc = "failed" /\ content.tabs = <<>>)
    /\ \A t \in DOMAIN content.tabs :
        /\ content.tabs[t].node.kind = "scalar" =>
            /\ pc = "failed"
            /\ content.tabs[t].rows = <<>>
            /\ Len(doc.body) < t
        /\ \A r \in DOMAIN content.tabs[t].rows :
            content.tabs[t].rows[r].node.kind = "scalar" =>
                /\ pc = "failed"
                /\ content.tabs[t].rows[r].cells = <<>>
                /\ Len(doc.body) < t

(***************************************************************************)
(* Failures and output.                                                    *)
(***************************************************************************)
\* C14: the document is saved only by a step from a parse whose loops all
\* ended, and it is saved as the parse left it; once a parse has raised,
\* the only step left is the construction of another generator, which
\* starts from an empty document.
C14_NoSaveAfterFailure ==
    [][/\ pc' = "saved" =>
            (pc \in {"body", "saved"} /\ doc' = doc /\ content' = content)
       /\ pc = "failed" =>
            (pc' \in {"body", "failed"} /\ doc'.body = <<>> /\ tab_counter' = 0
             /\ size' = size + 1)]_vars

\* a parse that raised on a malformed definition after it had inserted the
\* style defined before it, and a parse that raised on a number standing for
\* a row after it had appended a row
C14_Witness ==
    /\ pc = "failed"
    /\ \/ /\ "styles" \in content.node.has
          /\ content.node.styles = <<UserCell, UserBroken, UserRow>>
          /\ "mycell" \in used_styles
          /\ "myrow" \notin DOMAIN styles_elements
       \/ /\ content.tabs # <<>>
          /\ CurTab.rows # <<>>
          /\ CurRow.node.kind = "scalar"
          /\ CurRow.node.value.t = "int"

(***************************************************************************)
(* The description after the parse.                                        *)
(***************************************************************************)
\* C15 as worded: parsing leaves the description as it was given: every
\* mapping still holds the keys it held, and every explicit span list the
\* items it held.
C15_DescriptionUnchanged ==
    /\ content.opt = content.node
    /\ shared_span = SharedSpan.items
    /\ \A t \in DOMAIN content.tabs :
        /\ content.tabs[t].opt = content.tabs[t].node
        /\ \A r \in DOMAIN content.tabs[t].rows :
            /\ content.tabs[t].rows[r].opt = content.tabs[t].rows[r].node
            /\ \A c \in DOMAIN content.tabs[t].rows[r].cells :
                content.tabs[t].rows[r].cells[c].opt =
                    content.tabs[t].rows[r].cells[c].node

(***************************************************************************)
(* Tab names.                                                              *)
(***************************************************************************)
\* C16: a tab described without a "name" option is named "Tab n", n being
\* its 1-based position among all the tabs of the document, named ones
\* included; a tab described with a "name" option has exactly that name.
C16_TabNames ==
    \A t \in BuiltTabs :
        OutTable(t).name =
            IF "name" \in content.tabs[t].node.has THEN content.tabs[t].node.name
            ELSE DefaultTabNames[t]

\* a document whose first tab is named "first tab" and whose second tab,
\* described without a name, is "Tab 2"
C16_Witness ==
    /\ pc = "saved"
    /\ Len(doc.body) = 2
    /\ "name" \in content.tabs[1].node.has
    /\ doc.body[1].name = "first tab"
    /\ "name" \notin content.tabs[2].node.has
    /\ doc.body[2].name = "Tab 2"

(***************************************************************************)
(* One style option for two slots.                                         *)
(***************************************************************************)
\* the cells of row p that name no cell-family style of their own
Followers(p) ==
    {c \in DOMAIN content.tabs[p[1]].rows[p[2]].cells :
        FirstOfFamily(OptNames(CellNodeAt(<<p[1], p[2], c>>)), "table-cell") = None}

\* C17: whatever the order of the names in a "style" option, a row takes as
\* its own style the first row-family name of its option, else the first
\* row-family name of its tab's option, else the default row style, and
\* never a cell-family name; the seed of its cells is the first cell-family
\* name of its option, else the first cell-family name of its tab's option,
\* and the cells that name no cell-family style of their own take it.
C17_CascadeSlots ==
    /\ \A p \in RowPositions :
        LET rowOwn == FirstOfFamily(OptNames(RowNodeAt(p)), "table-row")
            rowSeed == FirstOfFamily(OptNames(RowNodeAt(p)), "table-cell")
            tabSeed == FirstOfFamily(OptNames(content.tabs[p[1]].node), "table-cell")
            style == OutTable(p[1]).rows[p[2]].style
        IN  /\ style = IF rowOwn # None THEN rowOwn ELSE TabRowStyle(p[1])
            /\ style # None => styles_elements[style].family = "table-row"
            /\ rowSeed # None =>
                \A c \in Followers(p) : CellStyleAt(<<p[1], p[2], c>>) = rowSeed
            /\ (rowSeed = None /\ tabSeed # None) =>
                \A c \in Followers(p) : CellStyleAt(<<p[1], p[2], c>>) = tabSeed
    /\ pc = "row" =>
        row_style_table_cell = Seed(Len(content.tabs), Len(CurTab.rows))

\* in a tab whose option lists "bold" then "table_row_1cm", a row whose
\* option is "center" alone keeps the row style "table_row_1cm" and seeds
\* its cell with "center"
C17_Witness ==
    /\ pc = "row"
    /\ OptNames(CurTab.node) = <<"bold", "table_row_1cm">>
    /\ OptNames(CurRow.node) = <<"center">>
    /\ table.rows[Len(table.rows)].style = "table_row_1cm"
    /\ row_style_table_cell = "center"
    /\ Len(table.rows[Len(table.rows)].cells) = 1
    /\ table.rows[Len(table.rows)].cells[1].style = "center"

(***************************************************************************)
(* Column widths.                                                          *)
(***************************************************************************)
\* the "width" option of tab t as described
WidthOf(t) ==
    IF "width" \in content.tabs[t].node.has THEN content.tabs[t].node.width
    ELSE NoWidth

\* the width of the column style the writer named
StyleWidth(name) ==
    LET i == CHOOSE i \in DOMAIN doc.styles :
                doc.styles[i].name = name /\ doc.styles[i].family = "table-column"
    IN  doc.styles[i].id

\* whether the writer holds a column style of that name
IsColumnStyle(name) ==
    \E i \in DOMAIN doc.styles :
        doc.styles[i].name = name /\ doc.styles[i].family = "table-column"

\* the set_column calls made on tab t
ColumnCalls(t) ==
    Cardinality({j \in DOMAIN calls : calls[j] = [op |-> "set_column", tab |-> t]})

\* the styled columns of a table
Styled(columns) == {i \in DOMAIN columns : columns[i] # None}

\* C18: on a tab appended to the document, no column is styled when the
\* "width" option is absent or empty; for a list, the styled columns are
\* exactly those at the positions of the non-empty widths, each with its own
\* width; for a scalar, every column of the tab is styled with that width.
C18_Width ==
    \A t \in 1..Len(doc.body) :
        LET width == WidthOf(t)
            columns == doc.body[t].columns
            given == {i \in DOMAIN width.items : width.items[i] # ""}
        IN  /\ ColumnCalls(t) = Cardinality(Styled(columns))
            /\ \A i \in Styled(columns) : IsColumnStyle(columns[i])
            /\ IF given = {} THEN Styled(columns) = {}
               ELSE IF width.isList
               THEN /\ Styled(columns) = given
                    /\ \A i \in given : StyleWidth(columns[i]) = width.items[i]
               ELSE /\ Styled(columns) = 1..RowWidth(doc.body[t].rows, 1)
                    /\ \A i \in Styled(columns) : StyleWidth(columns[i]) = width.items[1]

\* a tab described with the widths ["2cm", "", "3cm"]: its first and third
\* columns are styled, each with its width, the second is left alone
C18_Witness ==
    /\ pc = "body"
    /\ Len(doc.body) = 1
    /\ WidthOf(1).items = <<"2cm", "", "3cm">>
    /\ Len(doc.body[1].columns) = 3
    /\ StyleWidth(doc.body[1].columns[1]) = "2cm"
    /\ doc.body[1].columns[2] = None
    /\ StyleWidth(doc.body[1].columns[3]) = "3cm"

(***************************************************************************)
(* What a cell carries.                                                    *)
(***************************************************************************)
\* C19: every cell emitted carries the value of its description, its "text"
\* and "formula" strings as they are written (none when the key is not
\* given) and its "attr" pairs in order; the value is the described one
\* whatever the pairs are.
C19_CellPayload ==
    \A p \in CellPositions :
        LET node == CellNodeAt(p)
            cell == OutTable(p[1]).rows[p[2]].cells[p[3]]
        IN  /\ cell.value = DescribedValue(node)
            /\ cell.text = IF "text" \in node.has THEN node.text ELSE None
            /\ cell.formula = IF "formula" \in node.has THEN node.formula ELSE None
            /\ cell.attr = IF "attr" \in node.has THEN node.attr ELSE <<>>

\* a cell described with a value, a text, a formula and an attribute,
\* emitted with all four
C19_Witness ==
    \E p \in CellPositions :
        LET cell == OutTable(p[1]).rows[p[2]].cells[p[3]]
        IN  /\ CellNodeAt(p).has = {"value", "text", "formula", "attr"}
            /\ cell.value = PyInt(10)
            /\ cell.text = "ten"
            /\ cell.formula = "of:=[.A1]"
            /\ cell.attr = <<[key |-> "table:protected", value |-> "true"]>>

(***************************************************************************)
(* The dependency closure of insert_style.                                 *)
(***************************************************************************)
\* the catalog styles a catalog style refers to by an attribute whose key
\* ends in "style-name"
Referred(catalog, name) ==
    {d \in {catalog[name].deps[i] : i \in DOMAIN catalog[name].deps} :
        d \in DOMAIN catalog}

RECURSIVE Reachable(_, _, _)
\* the catalog styles reachable from the styles of S by references, never
\* entering a style of the set closed
Reachable(catalog, S, closed) ==
    LET next == S \cup (UNION {Referred(catalog, n) : n \in S} \ closed)
    IN  IF next = S THEN S ELSE Reachable(catalog, next, closed)

\* the user styles of the description that parse_styles handled, taken
\* when parse has just loaded them
ParsedStyles ==
    IF pc \in {"body", "failed"} /\ content.tabs = <<>> /\ "styles" \in content.opt.has
    THEN UntilMalformed(content.opt.styles) ELSE <<>>

\* the generator of __init__ once the built-in styles are loaded
BuiltinGen ==
    parse_styles([styles_elements |-> EmptyCatalog, used_styles |-> {},
                  inserted |-> <<>>], DEFAULT_STYLES, FALSE, 1)

\* the generator when parse_styles calls insert_style for the i-th user style
GenAtStyle(i) ==
    LET g2 == parse_styles(BuiltinGen, SubSeq(ParsedStyles, 1, i - 1), TRUE, 1)
        style == StyleElement(ParsedStyles[i])
    IN  [g2 EXCEPT !.styles_elements = (style.name :> style) @@ @]

\* the names of the writer calls insert_style(name) adds on generator g
NewCalls(g, name) ==
    LET after == insert_style(g, name)
    IN  {after.inserted[i].name : i \in (Len(g.inserted) + 1)..Len(after.inserted)}

\* the user styles of the description not yet inserted when parse_styles
\* calls insert_style for them
FreshUserStyles ==
    {i \in DOMAIN ParsedStyles :
        StyleName(ParsedStyles[i]) \notin GenAtStyle(i).used_styles}

\* insert_style(name) on generator g grows the used set by the styles of grown
GrowsBy(g, name, grown) ==
    insert_style(g, name).used_styles = g.used_styles \cup grown

\* insert_style(name) hands the styles of grown to the writer, once each,
\* all of them catalog styles
InsertsOnly(g, name, grown) ==
    LET after == insert_style(g, name)
    IN  /\ NewCalls(g, name) = grown
        /\ Len(after.inserted) = Len(g.inserted) + Cardinality(grown)
        /\ \A n \in grown : n \in DOMAIN g.styles_elements
        /\ "Default" \notin after.used_styles

\* every catalog style reachable from name that was not yet inserted
ReachableUnused(g, name) ==
    {name} \cup (Reachable(g.styles_elements, {name}, {}) \ g.used_styles)

\* every catalog style reachable from name through styles not yet inserted
ReachableThroughUnused(g, name) ==
    Reachable(g.styles_elements, {name}, g.used_styles)

RowOrCellAppended ==
    /\ Len(calls') = Len(calls) + 1
    /\ calls'[Len(calls')].op \in {"append_row", "append_cell"}

AppendedStyle ==
    LET row == table'.rows[Len(table'.rows)]
    IN  IF calls'[Len(calls')].op = "append_row" THEN row.style
        ELSE row.cells[Len(row.cells)].style

\* a step of parse_row or parse_cell that calls insert_style on a catalog
\* name not yet inserted grows the used set and the writer's styles by the
\* styles reachable from it through styles not yet inserted
ClosureStep ==
    (RowOrCellAppended /\ AppendedStyle \in DOMAIN styles_elements \ used_styles) =>
        LET grown == Reachable(styles_elements, {AppendedStyle}, used_styles)
        IN  /\ used_styles' = used_styles \cup grown
            /\ {doc'.styles[i].name : i \in (Len(doc.styles) + 1)..Len(doc'.styles)} = grown
            /\ Len(doc'.styles) = Len(doc.styles) + Cardinality(grown)
            /\ SubSeq(doc'.styles, 1, Len(doc.styles)) = doc.styles
            /\ "Default" \notin used_styles'

CyclicGen == parse_styles(BuiltinGen, CyclicStyles, FALSE, 1)

\* the names of the writer calls a generator has made, in call order
InsertedNames(g) == [i \in DOMAIN g.inserted |-> g.inserted[i].name]

\* the description declares styles that reference each other
DeclaresCycle ==
    /\ pc # "idle"
    /\ "styles" \in content.opt.has
    /\ content.opt.styles = CyclicStyles

\* C21 as worded: a parse whose catalog holds two styles referencing each
\* other recurses without bound in insert_style, so it never gets past the
\* loading of the styles.
C21_AsWorded ==
    ~DeclaresCycle

\* C21: the used set is the cycle guard of insert_style: a name is marked
\* used before its references are followed, so inserting a style of a cycle
\* returns after one writer call for each style of the cycle not yet
\* inserted, and the parse goes on.
C21_CycleTerminates ==
    /\ InsertedNames(insert_style(CyclicGen, "ping")) = <<"ping", "pong">>
    /\ insert_style(CyclicGen, "ping").used_styles = {"ping", "pong"}
    /\ InsertedNames(insert_style(CyclicGen, "self")) = <<"self">>
    /\ DeclaresCycle =>
        /\ {"ping", "pong", "self"} \subseteq used_styles
        /\ \A n \in {"ping", "pong", "self"} :
            Cardinality({i \in InsertStyleCalls : doc.styles[i].name = n}) = 1

\* a document declaring the styles "ping" and "pong" was parsed and saved
\* with a cell styled "ping"
C21_Witness ==
    /\ DeclaresCycle
    /\ pc = "saved"
    /\ Len(doc.body) = 1
    /\ \E p \in CellPositions : CellStyleAt(p) = "ping"
    /\ SubSeq(InsertedNames(Gen), 1, 3) = <<"ping", "pong", "self">>

(***************************************************************************)
(* Families of the styles assigned.                                        *)
(***************************************************************************)
\* name is a catalog entry of the family
InFamily(name, family) ==
    /\ name \in DOMAIN styles_elements
    /\ styles_elements[name].family = family

RowStyleAt(p) == OutTable(p[1]).rows[p[2]].style

\* C22: in every reachable state every non-none style assigned to an emitted
\* row names a catalog entry of family table-row and every non-none style
\* assigned to an emitted cell names a catalog entry of family table-cell,
\* whatever the style options and the defaults overrides are.
C22_FamilyMatches ==
    /\ \A p \in RowPositions :
        RowStyleAt(p) # None => InFamily(RowStyleAt(p), "table-row")
    /\ \A p \in CellPositions :
        CellStyleAt(p) # None => InFamily(CellStyleAt(p), "table-cell")

\* under a defaults override naming a row style for cells, a row whose option
\* lists an unknown name, a row style and two cell styles got the row style,
\* and a cell of it listing the same names got the first cell style
C22_Witness ==
    /\ defaults.style_table_cell = "default_table_row"
    /\ \E p \in CellPositions :
        /\ OptNames(RowNodeAt(<<p[1], p[2]>>)) = <<"nosuch", "table_row_1cm", "center", "bold">>
        /\ OptNames(CellNodeAt(p)) = <<"nosuch", "table_row_1cm", "center", "bold">>
        /\ RowStyleAt(<<p[1], p[2]>>) = "table_row_1cm"
        /\ CellStyleAt(p) = "center"

(***************************************************************************)
(* The order of the steps of a tab.                                        *)
(***************************************************************************)
\* the place of a call in the order of parse_table
Rank(op) ==
    CASE op \in {"append_row", "append_cell"} -> 1
      [] op = "set_column" -> 2
      [] op = "set_span" -> 3
      [] op = "append_table" -> 4

\* the calls made on tab t
CallsOf(t) == {j \in DOMAIN calls : calls[j].tab = t}

\* in the log of the calls, the calls of a tab come as rows and cells, then
\* column widths, then span regions, then at most one append of the table,
\* which is there for every tab of the document
OrderedCalls ==
    /\ \A i, j \in DOMAIN calls :
        (i < j /\ calls[i].tab = calls[j].tab) =>
            /\ Rank(calls[i].op) <= Rank(calls[j].op)
            /\ calls[i].op # "append_table"
    /\ \A t \in 1..Len(doc.body) :
        \E j \in CallsOf(t) : calls[j].op = "append_table"
    /\ \A j \in DOMAIN calls :
        calls[j].op = "append_table" => calls[j].tab <= Len(doc.body)

\* a table appended to the document stays as it was appended for as long
\* as the document lives
AppendedTablesKept ==
    doc'.body # <<>> =>
        /\ Len(doc'.body) >= Len(doc.body)
        /\ SubSeq(doc'.body, 1, Len(doc.body)) = doc.body

\* C23: for every tab, all of its rows and cells are appended, then the
\* width option is applied, then the span regions are merged, then the tab
\* is appended to the document, once; no row is appended and no width or span
\* is applied to a tab after it has been appended to the document.
C23_TabStepsInOrder ==
    []OrderedCalls /\ [][AppendedTablesKept]_vars

\* a tab with a row of one cell, a width and a span region is in the
\* document, and the next tab has been started
C23_Witness ==
    /\ calls = <<[op |-> "append_row", tab |-> 1], [op |-> "append_cell", tab |-> 1],
                 [op |-> "set_column", tab |-> 1], [op |-> "set_span", tab |-> 1],
                 [op |-> "append_table", tab |-> 1]>>
    /\ pc = "table"
    /\ tab_counter = 2
    /\ Len(doc.body) = 1
    /\ Len(doc.body[1].rows[1].cells) = 1
    /\ Styled(doc.body[1].columns) = {1}
    /\ doc.body[1].spans = <<PyStr("A1:B1")>>

(***************************************************************************)
(* split.                                                                  *)
(***************************************************************************)
\* what split(node, key) is to return for a node of the description, as
\* recorded when the node was split: the options are the mapping's entries
\* but the key, or no entry at all for a node that is no mapping, and the
\* content is missing only for a mapping without the key
SplitAs(entry, key) ==
    /\ entry.opt.has = IF entry.node.kind = "dict" THEN entry.node.has \ {key} ELSE {}
    /\ entry.inner = (entry.node.kind # "dict" \/ key \in entry.node.has)

\* a bare node, or a mapping whose only key is the structural key
Plain(node, key) == node.kind # "dict" \/ node.has = {key}

PlainCell(p) ==
    /\ Plain(CellNodeAt(p), "value")
    /\ Plain(RowNodeAt(<<p[1], p[2]>>), "row")
    /\ Plain(content.tabs[p[1]].node, "table")

\* the emitted cell but its coordinates
Payload(p) ==
    LET cell == OutTable(p[1]).rows[p[2]].cells[p[3]]
    IN  <<cell.value, cell.style, cell.text, cell.formula, cell.attr>>

\* C24: split(node, key) returns, for a mapping node, the value stored
\* under key (an empty sequence when the key is absent) with the mapping's
\* remaining entries as options, and for any other node the node itself with
\* no options; hence a bare sequence or scalar is processed like a mapping
\* whose only key is the structural key: in one document plain tabs get
\* default names, rows of plain tabs that are plain get the same style, and
\* plain cells of such rows holding the same value are emitted alike.
C24_Split ==
    /\ pc # "idle" => SplitAs(content, "body")
    /\ \A t \in DOMAIN content.tabs :
        /\ SplitAs(content.tabs[t], "table")
        /\ ~content.tabs[t].inner => content.tabs[t].rows = <<>>
        /\ Plain(content.tabs[t].node, "table") /\ t \in BuiltTabs =>
            OutTable(t).name = DefaultTabNames[t]
    /\ \A p \in RowPositions :
        LET row == content.tabs[p[1]].rows[p[2]]
        IN  /\ SplitAs(row, "row")
            /\ ~row.inner => row.cells = <<>>
    /\ \A p, q \in RowPositions :
        (/\ Plain(RowNodeAt(p), "row") /\ Plain(content.tabs[p[1]].node, "table")
         /\ Plain(RowNodeAt(q), "row") /\ Plain(content.tabs[q[1]].node, "table")) =>
            RowStyleAt(p) = RowStyleAt(q)
    /\ \A p \in CellPositions :
        LET cell == content.tabs[p[1]].rows[p[2]].cells[p[3]]
        IN  /\ cell.opt.has = IF cell.node.kind = "dict"
                               THEN cell.node.has \ {"value"} ELSE {}
            /\ CellValueAt(p) = DescribedValue(cell.node)
    /\ \A p, q \in CellPositions :
        (PlainCell(p) /\ PlainCell(q)
         /\ DescribedValue(CellNodeAt(p)) = DescribedValue(CellNodeAt(q))) =>
            Payload(p) = Payload(q)

\* a bare row holding the bare cell 10 and the mapping {"value": 10},
\* emitted alike, in a tab given as a mapping with the key "table" only
C24_Witness ==
    \E p, q \in CellPositions :
        /\ p[1] = q[1] /\ p[2] = q[2]
        /\ content.tabs[p[1]].node.kind = "dict"
        /\ content.tabs[p[1]].node.has = {"table"}
        /\ RowNodeAt(<<p[1], p[2]>>).kind = "list"
        /\ CellNodeAt(p) = Scalar(PyInt(10))
        /\ CellNodeAt(q) = DictCell({"value"}, PyInt(10), NoStyle)
        /\ Payload(p) = Payload(q)
        /\ CellStyleAt(p) = defaults.style_int

(***************************************************************************)
(* The reach of a row's style option.                                      *)
(***************************************************************************)
\* the cell-style seed of a tab: the first cell-family name of its option,
\* else defaults style_table_cell when it names a cell-family style
TabCellSeed(t) ==
    LET tabOwn == FirstOfFamily(OptNames(content.tabs[t].node), "table-cell")
    IN  IF tabOwn # None THEN tabOwn
        ELSE IF Eligible(defaults["style_table_cell"], "table-cell")
             THEN defaults["style_table_cell"]
        ELSE None

\* the cells of a row that name no cell-family style of their own and hold
\* an integer
IntFollowers(p) ==
    {c \in Followers(p) : CellValueAt(<<p[1], p[2], c>>).t = "int"}

\* C25: a row's style option affects only that row: while the rows of a tab
\* are parsed the tab-level row and cell seeds stay what the tab's option
\* and the defaults made them; two rows of one tab with the same style
\* option get the same row style and hand the same style to their cells,
\* whatever the rows before them carry; and a row without style option
\* gets the tab-level row style and hands down the tab-level cell seed.
C25_RowOptionIsLocal ==
    /\ pc \in {"table", "row"} =>
        /\ style_table_row = TabRowStyle(Len(content.tabs))
        /\ style_table_cell = TabCellSeed(Len(content.tabs))
    /\ \A p, q \in RowPositions :
        (p[1] = q[1] /\ OptNames(RowNodeAt(p)) = OptNames(RowNodeAt(q))) =>
            /\ RowStyleAt(p) = RowStyleAt(q)
            /\ \A c \in IntFollowers(p), d \in IntFollowers(q) :
                CellStyleAt(<<p[1], p[2], c>>) = CellStyleAt(<<q[1], q[2], d>>)
    /\ \A p \in RowPositions :
        OptNames(RowNodeAt(p)) = <<>> =>
            /\ RowStyleAt(p) = TabRowStyle(p[1])
            /\ TabCellSeed(p[1]) # None =>
                \A c \in Followers(p) :
                    CellStyleAt(<<p[1], p[2], c>>) = TabCellSeed(p[1])

\* after a row styled "table_row_1cm" and "center", a bare row of the same
\* tab has the default row style and its integer cell the default style of
\* integers
C25_Witness ==
    /\ pc = "row"
    /\ Len(CurTab.rows) = 2
    /\ OptNames(CurTab.rows[1].node) = <<"nosuch", "table_row_1cm", "center", "bold">>
    /\ CurTab.rows[2].node = BareRow
    /\ table.rows[1].style = "table_row_1cm"
    /\ table.rows[2].style = "default_table_row"
    /\ Len(table.rows[2].cells) = 1
    /\ table.rows[2].cells[1].value = PyInt(10)
    /\ table.rows[2].cells[1].style = "right"

(***************************************************************************)
(* The styles in the document before the first tab.                        *)
(***************************************************************************)
\* the user styles the description declares
DeclaredStyles ==
    IF "styles" \in content.opt.has THEN content.opt.styles ELSE <<>>

DeclaredNames == {StyleName(DeclaredStyles[i]) : i \in DOMAIN DeclaredStyles}

\* the catalog styles the declared definitions refer to
DeclaredReferences ==
    {d \in UNION {{DeclaredStyles[i].definition.deps[j] :
                        j \in DOMAIN DeclaredStyles[i].definition.deps} :
                  i \in DOMAIN DeclaredStyles} :
        d \in DOMAIN styles_elements}

\* the styles assigned to the rows and cells emitted so far
AssignedStyles ==
    {RowStyleAt(p) : p \in RowPositions} \cup {CellStyleAt(p) : p \in CellPositions}

\* the style loading of parse is over and no tab has been processed
StylesLoaded == pc = "body" /\ content.tabs = <<>>

\* C26 as worded: after the style loading and before the first tab the
\* styles inserted in the document are exactly the user-declared styles and
\* the catalog styles they depend on; and at any time an inserted style is
\* a declared one, one a row or cell resolved to, or one an inserted style
\* depends on.
C26_AsWorded ==
    /\ StylesLoaded =>
        used_styles = Reachable(styles_elements,
                                DeclaredNames \cup DeclaredReferences, {})
    /\ pc \in {"body", "table", "row", "saved"} =>
        used_styles \subseteq
            Reachable(styles_elements,
                      DeclaredNames \cup DeclaredReferences
                      \cup (AssignedStyles \ {None}), {})

(***************************************************************************)
(* Values of other types.                                                  *)
(***************************************************************************)
\* a value that is neither null, a string, an integer nor a floating-point
\* number
OtherValue(value) == value.t \notin {"none", "str", "int", "float"}

\* C27 as worded: a cell whose value is neither null, a string, an integer
\* nor a floating-point number (a boolean, or the empty sequence of a cell
\* mapping without "value"), with no inherited seed and no matching style
\* option, resolves to defaults style_other.
C27_AsWorded ==
    \A p \in CellPositions :
        (/\ FirstOfFamily(OptNames(CellNodeAt(p)), "table-cell") = None
         /\ Seed(p[1], p[2]) = None
         /\ OtherValue(CellValueAt(p))) =>
            CellStyleAt(p) =
                IF Eligible(defaults["style_other"], "table-cell")
                THEN defaults["style_other"]
                ELSE None

(***************************************************************************)
(* The column styles synthesized for the widths.                           *)
(***************************************************************************)
\* the insertion calls the writer received for the column styles of tab t
WidthInsertions(t) ==
    {j \in DOMAIN doc.styles :
        /\ doc.styles[j].family = "table-column"
        /\ \E i \in Styled(doc.body[t].columns) :
            doc.body[t].columns[i] = doc.styles[j].name}

\* C28 as worded: applying the widths of a tab makes as many width-style
\* insertion calls on the writer as there are distinct width strings
\* applied, and none of these styles enters the catalog or its used set.
C28_AsWorded ==
    \A t \in 1..Len(doc.body) :
        /\ Cardinality(WidthInsertions(t)) =
                Cardinality({doc.styles[j].id : j \in WidthInsertions(t)})
        /\ \A j \in WidthInsertions(t) :
            /\ doc.styles[j].name \notin DOMAIN styles_elements
            /\ doc.styles[j].name \notin used_styles

(***************************************************************************)
(* Styles defined more than once.                                          *)
(***************************************************************************)
\* the declared definitions parse_styles has loaded
LoadedStyles == UntilMalformed(DeclaredStyles)

\* the last definition loaded under a name declared by the description
LastDefinition(name) ==
    LET named == {i \in DOMAIN LoadedStyles : StyleName(LoadedStyles[i]) = name}
    IN  StyleElement(LoadedStyles[CHOOSE i \in named : \A j \in named : j <= i])

\* C29 as worded: when a style name is defined more than once the catalog
\* holds the last definition, and the definition the document carries for
\* that name is that last definition.
C29_AsWorded ==
    pc # "idle" =>
        \A name \in {StyleName(LoadedStyles[i]) : i \in DOMAIN LoadedStyles} :
            /\ styles_elements[name] = LastDefinition(name)
            /\ \A j \in InsertStyleCalls :
                doc.styles[j].name = name =>
                    doc.styles[j].id = LastDefinition(name).id

(***************************************************************************)
(* Styles assigned and styles inserted.                                    *)
(***************************************************************************)
\* the document holds a style of that name
InDocument(name) ==
    /\ name \in used_styles
    /\ \E j \in InsertStyleCalls : doc.styles[j].name = name

\* the references of the definition the writer received by call j: the
\* catalog entry of that name, or the declared definition it was before a
\* later one replaced it
CarriedReferences(j) ==
    LET name == doc.styles[j].name
        mine == {i \in DOMAIN LoadedStyles :
                    LoadedStyles[i].definition.id = doc.styles[j].id}
        deps == IF styles_elements[name].id = doc.styles[j].id
                THEN styles_elements[name].deps
                ELSE LoadedStyles[CHOOSE i \in mine : TRUE].definition.deps
    IN  {deps[i] : i \in DOMAIN deps}

\* the seeds in force: the tab-level row and cell seeds and the cell seed
\* of the row being parsed
SeedsInForce ==
    IF pc \in {"table", "row"}
    THEN {style_table_row, style_table_cell, row_style_table_cell} \ {None}
    ELSE {}

\* the styles the document holds for a reason of their own: assigned to a
\* row or cell, declared by the description, or referred to by one of these
HeldForCause ==
    Reachable(styles_elements,
              (AssignedStyles \ {None}) \cup DeclaredNames \cup DeclaredReferences, {})

\* C30: every non-none style assigned to a row or cell is in the used set
\* and in the document once that row or cell is appended, and so is every
\* catalog style a definition of the document refers to; a style resolved
\* only as a tab-level or row-level seed, which no row or cell uses and
\* which is neither declared by the description nor referred to by a style
\* of the document, is not inserted.
C30_AssignedAreInserted ==
    /\ \A p \in RowPositions : RowStyleAt(p) # None => InDocument(RowStyleAt(p))
    /\ \A p \in CellPositions : CellStyleAt(p) # None => InDocument(CellStyleAt(p))
    /\ \A j \in InsertStyleCalls :
        \A d \in CarriedReferences(j) :
            d \in DOMAIN styles_elements => InDocument(d)
    /\ \A s \in SeedsInForce : s \notin HeldForCause => s \notin used_styles

\* in a tab seeding its rows with "table_row_1cm" and its cells with
\* "center", a row whose option is "bold" and its cell are appended: the
\* row style and "bold" are in the document, "center" is not
C30_Witness ==
    /\ pc = "row"
    /\ style_table_row = "table_row_1cm"
    /\ style_table_cell = "center"
    /\ row_style_table_cell = "bold"
    /\ Len(table.rows) = 1
    /\ Len(table.rows[1].cells) = 1
    /\ table.rows[1].style = "table_row_1cm"
    /\ table.rows[1].cells[1].style = "bold"
    /\ used_styles = {"table_row_1cm", "bold"}
    /\ InDocument("bold")
    /\ "center" \notin used_styles

====
